---- MODULE Spec2Model ----
(***************************************************************************)
(* State-machine model of the SFU coordination layer: the channel          *)
(* registry (src/src/models/channel.js, TypeScript variant, lines          *)
(* 349-611), the session state machine and its consumer/producer           *)
(* orchestration (src/src/models/session.ts) and the gateway that binds a  *)
(* link to a session (src/src/services/ws.ts).                             *)
(*                                                                         *)
(* The program runs on a single-threaded event loop: a handler runs        *)
(* without interruption up to its next `await`.  Every action below is one *)
(* such run: an entry point up to its first await, or the continuation of  *)
(* one await up to the next.  What is suspended at an await is kept in the *)
(* bag `tasks` (or, for Session.connect, in the session's `pc`).           *)
(*                                                                         *)
(* The media engine is an external collaborator.  Its handles are modelled *)
(* by what the core does to them: a handle is closed when the core has     *)
(* called close() on it.  An engine call that is issued on a handle that   *)
(* is already closed fails; a call in flight completes either way.         *)
(*                                                                         *)
(* The message bus (src/unnamed/part_003) is modelled on its own: its      *)
(* request map, its batch queue and its timers, with the log of what it    *)
(* wrote to the link and delivered to its owner.  The authentication of a  *)
(* link (src/src/services/ws.ts, src/src/services/auth.ts) is modelled by  *)
(* the links that have not sent their first message yet.                   *)
(*                                                                         *)
(* Timers are modelled in ticks: a timer fires when its time has come, and *)
(* time does not pass a timer that is due.  The tick counts keep the order *)
(* of the durations of the configuration (request 5 s < session 10 s <     *)
(* ping 60 s < channel 60 min).  The worker pool (services/rtc.ts, in      *)
(* src/src/services/ws.js) is the record `rtc`.                            *)
(*                                                                         *)
(* The temporal checks of verify (auth.ts:203-214) are modelled on         *)
(* numbers: `clock` holds the claims of one correctly signed token, the    *)
(* value of `now` and what the call returned or threw.                     *)
(***************************************************************************)
EXTENDS Integers, Sequences, FiniteSets, Bags, TLC

\* ------------------------------------------------------------------ bounds
MaxSessions == 2        \* session objects ever created (Spec)
MaxChanSessions == 1    \* session objects ever created (SpecChan)
MaxJoinSessions == 3    \* session objects ever created (SpecJoin)
MaxMediaSessions == 2   \* session objects ever created (SpecMedia)
NumSessionIds == 3      \* distinct session ids the issuer hands out
MaxChannels == 2        \* channel objects ever created
NumIssuers == 2         \* distinct (remoteAddress, iss) pairs
NumTypes == 1           \* modelled prefix of the stream types audio, camera, screen
MaxProducers == 1       \* engine producers ever created
MaxConsumers == 2       \* engine consumers ever created
MaxSlots == 3           \* `Consumers` objects ever created
MaxTasks == 2           \* client messages are taken while fewer operations are in flight
MaxFailures == 1        \* engine calls / bus requests that fail although they could succeed
CHANNEL_SIZE == 2       \* config.CHANNEL_SIZE (environment-configurable, default 100)
maxSessionErrors == 2   \* config.maxSessionErrors (6 in the source)
MaxBusCalls == 2        \* payloads handed to the bus (SpecBus)
MaxBatchCalls == 5      \* payloads handed to the bus (SpecBatch)
MaxBusFrames == 2       \* payloads received from the link (SpecBus)
NumValues == 2          \* distinct response messages (SpecBus)
MaxLinks == 3           \* links ever opened (SpecAuth)
NumKeys == 2            \* keys other than the global key
MaxEntries == 2         \* channels listed in one /disconnect request
MaxListed == 2          \* session ids listed for one channel of a /disconnect request
MaxTimedSessions == 2   \* session objects ever created (SpecTime)
RequestTicks == 1       \* default timeout of a bus request (5 000 ms), in ticks
SessionTicks == 2       \* config.timeouts.session (10 000 ms), in ticks
PingTicks == 3          \* config.timeouts.ping (60 000 ms): more ticks than SessionTicks
MaxCastSessions == 3    \* session objects ever created (SpecCast)
MaxHeard == 1           \* BROADCAST messages a client is sent
NumMessages == 1        \* distinct BROADCAST payloads
MaxIdleSessions == 3    \* session objects ever created (SpecIdle)
ChannelTicks == 4       \* config.timeouts.channel (3 600 000 ms), in ticks
NumWorkers == 2         \* config.NUM_WORKERS: the workers made at start
MaxWorkers == 3         \* worker objects ever created
MaxRtcSessions == 2     \* session objects ever created (SpecRtc)
MaxErrSessions == 2     \* session objects ever created (SpecErr)
MaxNow == 3             \* latest value of Math.floor(Date.now() / 1000)
MaxProdSessions == 2    \* session objects ever created (SpecProd)
MaxProduced == 2        \* engine producers ever created (SpecProd)

SessionIds == 1..NumSessionIds
Issuers == 1..NumIssuers
Types == 1..NumTypes

S_NEW == "new"
S_CONNECTING == "connecting"
S_CONNECTED == "connected"
S_CLOSED == "closed"

CLEAN == "clean"
REPLACED == "replaced"
WS_ERROR == "ws_error"
WS_CLOSED == "ws_closed"
CHANNEL_CLOSED == "channel_closed"
C_TIMEOUT == "connection_timeout"
P_TIMEOUT == "ping_timeout"
KICKED == "kicked"
ERROR == "error"

VARIABLES
    channels,         \* Seq of Channel objects; the index is the uuid
    records,          \* Channel.records: set of registered uuids
    recordsByIssuer,  \* Channel.recordsByIssuer: issuer -> uuid, 0 when absent
    sessions,         \* Seq of Session objects
    producers,        \* Seq of engine producers
    consumers,        \* Seq of engine consumers
    slots,            \* Seq of the `Consumers` objects held in Session._consumers
    tasks,            \* bag of suspended async calls
    failures,         \* failures injected so far
    bus,              \* one Bus object and what it did to its link and its owner
    links,            \* Seq of the links (webSockets) that clients opened
    rtc,              \* the worker pool: `workers`, the calls of makeWorker in
                      \* flight (`making`) and the workers ever made (`made`)
    clock             \* one call of verify(): the claims of a correctly signed
                      \* token, the value of `now` and what the call did

vars == <<channels, records, recordsByIssuer, sessions, producers, consumers,
          slots, tasks, failures, bus, links, rtc, clock>>

\* The mutable heap as one value, so that a handler is a function World -> World.
World ==
    [channels |-> channels, records |-> records, recordsByIssuer |-> recordsByIssuer,
     sessions |-> sessions, producers |-> producers, consumers |-> consumers,
     slots |-> slots, tasks |-> tasks, failures |-> failures, rtc |-> rtc]

Commit(w) ==
    /\ channels' = w.channels
    /\ records' = w.records
    /\ recordsByIssuer' = w.recordsByIssuer
    /\ sessions' = w.sessions
    /\ producers' = w.producers
    /\ consumers' = w.consumers
    /\ slots' = w.slots
    /\ tasks' = w.tasks
    /\ failures' = w.failures
    /\ rtc' = w.rtc
    /\ UNCHANGED <<bus, links, clock>>

\* new Bus(websocket, options) (part_003:39-81).  `log` is what the bus did, in
\* order: the frames it wrote to the link, the callbacks of its owner it
\* invoked, the requests it was given and how it completed them, the response
\* payloads it was handed, the deadlines that fired and the calls of close().
NewBus ==
    [requestCount |-> 0, pendingRequests |-> {}, messageQueue |-> <<>>,
     batchTimeout |-> 0, timers |-> {}, timerCount |-> 0,
     handlers |-> TRUE, listening |-> TRUE, muted |-> FALSE, link |-> "open",
     calls |-> 0, frames |-> 0, answering |-> {}, log |-> <<>>]

\* A claim of a token: absent, or the number it carries.
Absent == [has |-> FALSE, v |-> 0]
Num(n) == [has |-> TRUE, v |-> n]

\* No call of verify() was made.
NoClock ==
    [claims |-> [exp |-> Absent, nbf |-> Absent, iat |-> Absent], now |-> 0,
     out |-> "idle"]

\* Everything but the token that verify() is given.
InitHeap ==
    /\ bus = NewBus
    /\ links = <<>>
    /\ channels = <<>>
    /\ records = {}
    /\ recordsByIssuer = [i \in Issuers |-> 0]
    /\ sessions = <<>>
    /\ producers = <<>>
    /\ consumers = <<>>
    /\ slots = <<>>
    /\ tasks = EmptyBag
    /\ failures = 0
    /\ rtc = [workers |-> 1..NumWorkers, making |-> 0, made |-> NumWorkers]

Init ==
    /\ InitHeap
    /\ clock = NoClock

\* ----------------------------------------------------------------- helpers
\* Session.state getter: the value of the last assignment through the setter,
\* which emits "stateChange" (kept in `log`).
StateOf(w, s) ==
    IF w.sessions[s].log = <<>> THEN S_NEW ELSE w.sessions[s].log[Len(w.sessions[s].log)]

SetState(w, s, st) == [w EXCEPT !.sessions[s].log = Append(@, st)]

\* The session objects in channel c's `sessions` map.
SessionsIn(w, c) == {w.channels[c].sessions[i] : i \in SessionIds} \ {0}

\* channel.sessions.size
SizeOf(w, c) == Cardinality({i \in SessionIds : w.channels[c].sessions[i] # 0})

\* A finite set of integers as an ascending sequence (a fixed iteration order).
RECURSIVE SetToSeq(_)
SetToSeq(S) ==
    IF S = {} THEN <<>>
    ELSE LET m == CHOOSE x \in S : \A y \in S : x <= y
         IN <<m>> \o SetToSeq(S \ {m})

\* The tables (sessions, consumers, producers, slots) are sequences, and a
\* table rebuilt entry by entry is a sequence again.
AsSeq(f) == f \o <<>>

\* consumer.close() on each of `cs`.
CloseConsumers(tab, cs) ==
    AsSeq([c \in DOMAIN tab |->
              IF c \in cs THEN [tab[c] EXCEPT !.closed = TRUE] ELSE tab[c]])

NewTask(kind, self) ==
    [kind |-> kind, self |-> self, peer |-> 0, cobj |-> 0, type |-> 0,
     snap |-> [t \in Types |-> 0], cur |-> 0, want |-> FALSE, doomed |-> FALSE,
     worker |-> 0]

Spawn(w, t) == [w EXCEPT !.tasks = @ (+) SetToBag({t})]
Retire(w, t) == [w EXCEPT !.tasks = @ (-) SetToBag({t})]
InFlight(w) == BagCardinality(w.tasks)

\* ------------------------------------------------------------ Session.close
\* No guard: every call runs close() to its end.
AlreadyClosed_never(w, s) == FALSE

\* session.ts:238, the guard that makes close() idempotent.
AlreadyClosed(w, s) == StateOf(w, s) = S_CLOSED

\* A broadcast that reaches nobody.
BroadcastTargets_none(w, s) == {}

\* Session._broadcast (session.ts:204-217): the sessions of the channel with
\* another id.  Every session of the map has a bus: the gateway calls connect()
\* in the same run as Channel.join.
BroadcastTargets(w, s) ==
    {x \in SessionsIn(w, w.sessions[s].chan) : w.sessions[x].sid # w.sessions[s].sid}

\* A close handler that tells only a forced disconnect from a clean close.
WsCloseCode_kickedOnly(code) == IF code = KICKED THEN 4108 ELSE 1000

\* ws.ts:134-149, session close code -> link close code.
WsCloseCode(code) ==
    CASE code = ERROR -> 1011
      [] code \in {KICKED, REPLACED, CHANNEL_CLOSED} -> 4108
      [] code \in {C_TIMEOUT, P_TIMEOUT} -> 4107
      [] OTHER -> 1000

\* An idle timer that starts anew each time it is asked for.
SetCloseTimeout_restart(w, c, active) ==
    [w EXCEPT !.channels[c].closeTimeout = active,
              !.channels[c].idleIn = IF active THEN ChannelTicks ELSE @]

\* Channel.setCloseTimeout (channel.js:560-572); `idleIn` is the time left on
\* the timer, in ticks.
SetCloseTimeout(w, c, active) ==
    IF active
    THEN IF w.channels[c].closeTimeout
         THEN w
         ELSE [w EXCEPT !.channels[c].closeTimeout = TRUE,
                        !.channels[c].idleIn = ChannelTicks]
    ELSE [w EXCEPT !.channels[c].closeTimeout = FALSE]

\* A close listener that removes the session and leaves the idle timer alone.
OnSessionClose_noArm(w, s) ==
    [w EXCEPT !.channels[w.sessions[s].chan].sessions[w.sessions[s].sid] = 0]

\* Channel._onSessionClose (channel.js:596-610).
OnSessionClose(w, s) ==
    LET c == w.sessions[s].chan
        w1 == [w EXCEPT !.channels[c].sessions[w.sessions[s].sid] = 0]
    IN IF SizeOf(w1, c) <= 1 THEN SetCloseTimeout(w1, c, TRUE) ELSE w1

\* The one-shot listeners that Session.consume registers on the peer `s`
\* (session.ts:378-386): each owner that is not closed closes the consumers of
\* that `Consumers` object and deletes its map entry for s's id.
PeerCleanup(w, s) ==
    LET regs == {k \in DOMAIN w.slots : w.slots[k].peer = s /\ w.slots[k].reg}
        live == {k \in regs : StateOf(w, w.slots[k].owner) # S_CLOSED}
        gone == {w.slots[k].slot[t] : k \in live, t \in Types} \ {0}
        owners == {w.slots[k].owner : k \in live}
    IN [w EXCEPT
          !.consumers = CloseConsumers(@, gone),
          !.slots = AsSeq([k \in DOMAIN @ |->
                        IF k \in regs THEN [@[k] EXCEPT !.reg = FALSE] ELSE @[k]]),
          !.sessions = AsSeq([a \in DOMAIN @ |->
                        IF a \in owners
                        THEN [@[a] EXCEPT !.consumers[w.sessions[s].sid] = 0]
                        ELSE @[a]])]

\* The listeners that INIT_PRODUCER registers (session.ts:620-623).
ProducerCleanup(w, s) ==
    LET prs == {p \in DOMAIN w.producers : w.producers[p].owner = s /\ w.producers[p].reg}
        ts == {w.producers[p].type : p \in prs}
    IN [w EXCEPT
          !.producers = AsSeq([p \in DOMAIN @ |->
                          IF p \in prs THEN [@[p] EXCEPT !.closed = TRUE] ELSE @[p]]),
          !.sessions[s].producers = [t \in Types |-> IF t \in ts THEN 0 ELSE @[t]]]

\* emit("close", {id, code}) (session.ts:257): the listeners, in the order of
\* their registration.
EmitClose(w, s, code) ==
    LET w1 == [w EXCEPT !.sessions[s].closeLog = Append(@, code)]
        \* Channel.join: session.once("close", this._onSessionClose)
        w2 == IF w1.sessions[s].onCloseChannel
              THEN OnSessionClose([w1 EXCEPT !.sessions[s].onCloseChannel = FALSE], s)
              ELSE w1
        \* ws.ts:134-153
        w3 == IF w2.sessions[s].link = "open"
              THEN [w2 EXCEPT !.sessions[s].link = "closing",
                              !.sessions[s].linkCode = WsCloseCode(code)]
              ELSE w2
        \* session.ts:282-285
        w4 == [w3 EXCEPT !.sessions[s].connTimer = FALSE, !.sessions[s].pingTimer = FALSE]
        \* session.ts:322-325
        w5 == IF w4.sessions[s].onCloseTransports
              THEN [w4 EXCEPT !.sessions[s].transports = "closed",
                              !.sessions[s].onCloseTransports = FALSE]
              ELSE w4
    IN ProducerCleanup(PeerCleanup(w5, s), s)

\* A close without the guard of line 238, on a session whose channel listener
\* was never removed.
SessionClose_listening(w, s, code) ==
    EmitClose(SetState([w EXCEPT !.sessions[s].onCloseChannel = TRUE], s, S_CLOSED),
              s, code)

\* Session.close (session.ts:219-258).
SessionClose(w, s, code) ==
    LET me == w.sessions[s]
        mine == {me.consumers[i] : i \in SessionIds} \ {0}
        gone == {w.slots[k].slot[t] : k \in mine, t \in Types} \ {0}
        w1 == [w EXCEPT !.sessions[s].recover = [i \in SessionIds |-> 0],
                        !.sessions[s].timers =
                            [i \in SessionIds |-> IF me.recover[i] # 0 THEN @[i] - 1
                                                  ELSE @[i]],
                        !.sessions[s].errors = 0,
                        !.sessions[s].consumers = [i \in SessionIds |-> 0],
                        !.consumers = CloseConsumers(@, gone)]
        w2 == SetState(w1, s, S_CLOSED)
        w3 == IF code # CHANNEL_CLOSED
              THEN [w2 EXCEPT !.sessions[s].leaveTo = Append(@, BroadcastTargets(w2, s))]
              ELSE w2
    IN IF AlreadyClosed(w, s) THEN w1 ELSE EmitClose(w3, s, code)

\* An error limit that is reached one error early.
HandleError_atLimit(w, s) ==
    LET w1 == [w EXCEPT !.sessions[s].errors = @ + 1]
    IN IF w1.sessions[s].errors >= maxSessionErrors THEN SessionClose(w1, s, ERROR) ELSE w1

\* Session._handleError (session.ts:488-503).
HandleError(w, s) ==
    LET w1 == [w EXCEPT !.sessions[s].errors = @ + 1]
    IN IF w1.sessions[s].errors > maxSessionErrors THEN SessionClose(w1, s, ERROR) ELSE w1

\* A recovery that arms its timer without cancelling the one on record.
ScheduleConsumerRecovery_noClear(w, a, b) ==
    [w EXCEPT !.sessions[a].recover[w.sessions[b].sid] = b,
              !.sessions[a].timers[w.sessions[b].sid] = @ + 1]

\* Session._scheduleConsumerRecovery (session.ts:468-476): one timer per peer
\* id, which re-invokes consume(b).  `recover` is the map of handles (0 for no
\* handle or the handle of a timer that has fired), `timers` counts the timers
\* that are armed: clearTimeout disarms the one on record, setTimeout arms one.
ScheduleConsumerRecovery(w, a, b) ==
    LET sid == w.sessions[b].sid
        cleared == IF w.sessions[a].recover[sid] # 0
                   THEN [w EXCEPT !.sessions[a].timers[sid] = @ - 1]
                   ELSE w
    IN [cleared EXCEPT !.sessions[a].recover[sid] = b,
                       !.sessions[a].timers[sid] = @ + 1]

\* --------------------------------------------------------- Session.consume
\* router.canConsume(producerId, clientCapabilities): decided by the client's
\* capabilities, which exist once INIT_TRANSPORTS was answered.
CanConsume(w, a, p) == w.sessions[a].caps

\* An engine call on a handle: it is doomed when the handle is closed already.
TransportGone(w, s) == w.sessions[s].transports # "open"

\* Session._syncConsumerState (session.ts:452-466) for the consumer in the
\* slot, then the rest of the loop of _createConsumersForSession
\* (session.ts:395-449) from type t.type on, up to its next await.
RECURSIVE RunLoop(_, _)
SyncConsumerState(w, t) ==
    LET c == w.slots[t.cobj].slot[t.type]
        p == t.snap[t.type]
    IN IF w.producers[p].paused # w.consumers[c].paused
       THEN Spawn(w, [t EXCEPT !.kind = "sync", !.cur = c,
                               !.want = w.producers[p].paused,
                               !.doomed = w.consumers[c].closed])
       ELSE RunLoop(w, [t EXCEPT !.type = @ + 1])

RunLoop(w, t) ==
    IF t.type > NumTypes THEN w
    ELSE IF t.snap[t.type] = 0 \/ ~CanConsume(w, t.self, t.snap[t.type])
         THEN RunLoop(w, [t EXCEPT !.type = @ + 1])
    ELSE IF w.slots[t.cobj].slot[t.type] = 0
         THEN Spawn(w, [t EXCEPT !.kind = "consume", !.cur = 0,
                                 !.doomed = TransportGone(w, t.self)])
    ELSE SyncConsumerState(w, t)

\* The catch block of _createConsumersForSession (session.ts:439-448).
ConsumeCatch(w, t) ==
    LET c == w.slots[t.cobj].slot[t.type]
        w1 == [w EXCEPT !.consumers = CloseConsumers(@, {c} \ {0}),
                        !.slots[t.cobj].slot[t.type] = 0]
    IN IF StateOf(w1, t.peer) = S_CLOSED THEN w1
       ELSE ScheduleConsumerRecovery(HandleError(w1, t.self), t.self, t.peer)

\* Session.consume (session.ts:366-389), up to its first await.
Consume(w, a, b) ==
    IF a = b \/ StateOf(w, b) # S_CONNECTED \/ ~w.channels[w.sessions[a].chan].router
    THEN w
    ELSE LET id == w.sessions[b].sid
             k0 == w.sessions[a].consumers[id]
             k == IF k0 = 0 THEN Len(w.slots) + 1 ELSE k0
             w1 == IF k0 = 0
                   THEN [w EXCEPT
                           !.slots = Append(@, [owner |-> a, peer |-> b, reg |-> TRUE,
                                                slot |-> [t \in Types |-> 0]]),
                           !.sessions[a].consumers[id] = k]
                   ELSE w
         IN RunLoop(w1, [NewTask("consume", a) EXCEPT
                           !.peer = b, !.cobj = k, !.type = 1,
                           !.snap = w.sessions[b].producers])

RECURSIVE ConsumeEach(_, _, _)
\* session.consume(s) for every session of `xs` (a sequence).
ConsumeEach(w, xs, s) ==
    IF xs = <<>> THEN w ELSE ConsumeEach(Consume(w, xs[1], s), Tail(xs), s)

\* Session._updateRemoteConsumers (session.ts:508-513).  The calls touch
\* different sessions, so the map's iteration order is immaterial.
UpdateRemoteConsumers(w, s) ==
    ConsumeEach(w, SetToSeq(SessionsIn(w, w.sessions[s].chan)), s)

RECURSIVE ConsumeBoth(_, _, _)
\* session.ts:301-304: this.consume(x) and x.consume(this) for every x.
ConsumeBoth(w, s, xs) ==
    IF xs = <<>> THEN w
    ELSE ConsumeBoth(Consume(Consume(w, s, xs[1]), xs[1], s), s, Tail(xs))

\* ----------------------------------------------------------------- Channel
NewChannel(i, router) ==
    [issuer |-> i, router |-> router, sessions |-> [x \in SessionIds |-> 0],
     closeTimeout |-> FALSE, onClose |-> FALSE, closed |-> FALSE, key |-> 0,
     idleIn |-> ChannelTicks, worker |-> 0]

\* The tail of Channel.create (channel.js:402-419): construct, register under
\* both keys, attach the close handler, arm the idle timer.  `worker` is the
\* worker of channelOptions, 0 without WebRTC.
RegisterChannel(w, i, worker) ==
    LET c == Len(w.channels) + 1
    IN [w EXCEPT !.channels = Append(@, [NewChannel(i, worker # 0) EXCEPT
                                            !.closeTimeout = TRUE, !.onClose = TRUE,
                                            !.worker = worker]),
                 !.recordsByIssuer[i] = c,
                 !.records = @ \cup {c}]

RECURSIVE CloseEach_asKicked(_, _)
\* A channel close that closes its sessions the way a forced disconnect does.
CloseEach_asKicked(w, xs) ==
    IF xs = <<>> THEN w
    ELSE CloseEach_asKicked(SessionClose([w EXCEPT !.sessions[xs[1]].onCloseChannel = FALSE],
                                         xs[1], KICKED),
                            Tail(xs))

RECURSIVE CloseEach(_, _)
\* channel.js:578-581: detach the channel's listener, close with CHANNEL_CLOSED.
CloseEach(w, xs) ==
    IF xs = <<>> THEN w
    ELSE CloseEach(SessionClose([w EXCEPT !.sessions[xs[1]].onCloseChannel = FALSE],
                                xs[1], CHANNEL_CLOSED),
                   Tail(xs))

\* Channel.close (channel.js:577-590) and the close handler of Channel.create
\* (channel.js:413-417).
ChannelClose(w, c) ==
    LET w1 == CloseEach(w, SetToSeq(SessionsIn(w, c)))
        w2 == [w1 EXCEPT !.channels[c].closeTimeout = FALSE,
                         !.channels[c].closed = TRUE,
                         !.channels[c].sessions = [x \in SessionIds |-> 0],
                         !.records = @ \ {c}]
    IN IF w2.channels[c].onClose
       THEN [w2 EXCEPT !.channels[c].onClose = FALSE,
                       !.recordsByIssuer[w.channels[c].issuer] = 0]
       ELSE w2

NewSession(sid, c) ==
    [sid |-> sid, chan |-> c, log |-> <<>>, link |-> "open", linkCode |-> 0,
     pc |-> "new", transports |-> "none", onCloseChannel |-> FALSE,
     onCloseTransports |-> FALSE, connTimer |-> FALSE, pingTimer |-> FALSE,
     caps |-> FALSE, errors |-> 0,
     producers |-> [t \in Types |-> 0],
     consumers |-> [i \in SessionIds |-> 0],
     recover |-> [i \in SessionIds |-> 0],
     timers |-> [i \in SessionIds |-> 0],
     closeLog |-> <<>>, leaveTo |-> <<>>,
     age |-> 0, reqAge |-> 0, pingIn |-> PingTicks, pingAge |-> -1,
     heard |-> <<>>]

\* A join that installs the new session without closing the one it replaces.
ChannelJoin_noEvict(w, c, sid) ==
    LET s == Len(w.sessions) + 1
        w2 == [w EXCEPT !.sessions = Append(@, [NewSession(sid, c) EXCEPT
                                                  !.onCloseChannel = TRUE]),
                        !.channels[c].sessions[sid] = s]
    IN IF SizeOf(w2, c) > 1 THEN SetCloseTimeout(w2, c, FALSE) ELSE w2

\* Channel.join, the instance method (channel.js:540-558).
ChannelJoin(w, c, sid) ==
    LET old == w.channels[c].sessions[sid]
        w1 == IF old # 0
              THEN SessionClose([w EXCEPT !.sessions[old].onCloseChannel = FALSE],
                                old, REPLACED)
              ELSE w
        s == Len(w1.sessions) + 1
        w2 == [w1 EXCEPT !.sessions = Append(@, [NewSession(sid, c) EXCEPT
                                                   !.onCloseChannel = TRUE]),
                         !.channels[c].sessions[sid] = s]
    IN IF SizeOf(w2, c) > 1 THEN SetCloseTimeout(w2, c, FALSE) ELSE w2

\* A capacity check that lets one session too many in.
IsFull_offByOne(w, c) == SizeOf(w, c) > CHANNEL_SIZE

\* The capacity check of the static Channel.join (channel.js:434).
IsFull(w, c) == SizeOf(w, c) >= CHANNEL_SIZE

\* ---------------------------------------------------------- Session.connect
\* connect() going on without looking at the state.
ConnectFinish_unchecked(w, s) ==
    ConsumeBoth([SetState(w, s, S_CONNECTED) EXCEPT !.sessions[s].pc = "done"],
                s, SetToSeq(SessionsIn(w, w.sessions[s].chan)))

\* session.ts:291-305, after the transports are initialised (or skipped).
ConnectFinish(w, s) ==
    IF StateOf(w, s) = S_CLOSED
    THEN [w EXCEPT !.sessions[s].pc = "done",
                   !.sessions[s].transports = IF @ = "none" THEN @ ELSE "closed"]
    ELSE ConsumeBoth([SetState(w, s, S_CONNECTED) EXCEPT !.sessions[s].pc = "done"],
                     s, SetToSeq(SessionsIn(w, w.sessions[s].chan)))

\* session.ts:260-289, up to the first await.
ConnectStart(w, s) ==
    LET w1 == [SetState(w, s, S_CONNECTING) EXCEPT
                 !.sessions[s].connTimer = TRUE, !.sessions[s].pingTimer = TRUE]
    IN IF w1.channels[w1.sessions[s].chan].router
       THEN [w1 EXCEPT !.sessions[s].pc = "create"]
       ELSE ConnectFinish(w1, s)

\* The catch block of _initializeTransports (session.ts:339-349); connect()
\* rejects, and the gateway closes the session again (ws.ts:167-173).
ConnectFailed(w, s) ==
    [SessionClose(SessionClose(w, s, ERROR), s, ERROR) EXCEPT !.sessions[s].pc = "failed"]

\* A call that could succeed fails only within the failure budget.
MayFail(w) == w.failures < MaxFailures
Failed(w) == [w EXCEPT !.failures = @ + 1]

\* ----------------------------------------------------------------- actions
\* GET /v1/channel -> Channel.create (channel.js:380-401), up to its first await.
CreateChannel(i, useWebRtc) ==
    /\ LET w == World
       IN IF w.recordsByIssuer[i] # 0
          THEN Commit(w)
          ELSE /\ Len(w.channels) + InFlight(w) < MaxChannels
               /\ IF useWebRtc
                  THEN Commit(Spawn(w, NewTask("getWorker", i)))
                  ELSE Commit(RegisterChannel(w, i, 0))

\* channel.js:397, `await getWorker()` completes with the worker wk of the
\* pool: the one whose resource usage the engine reports as the lowest
\* (getWorker in services/rtc.ts, ws.js:215-238).
WorkerPicked(t, wk) ==
    /\ t.kind = "getWorker"
    /\ wk \in rtc.workers
    /\ Commit(Spawn(Retire(World, t), [t EXCEPT !.kind = "createRouter", !.worker = wk]))

\* getWorker throws when the pool is empty (ws.js:234-236); Channel.create
\* rejects.
NoWorker(t) ==
    /\ t.kind = "getWorker"
    /\ rtc.workers = {}
    /\ Commit(Retire(World, t))

\* `await getWorker()` completes: with the first worker of the pool, or it
\* rejects.
WorkerObtained(t, ok) ==
    /\ t.kind = "getWorker"
    /\ IF ok
       THEN \E wk \in rtc.workers :
               /\ \A x \in rtc.workers : wk <= x
               /\ WorkerPicked(t, wk)
       ELSE MayFail(World) /\ Commit(Failed(Retire(World, t)))

\* channel.js:398, `await worker.createRouter()` completes; on a worker that
\* died in the meantime it rejects.
RouterCreated(t, ok) ==
    /\ t.kind = "createRouter"
    /\ IF t.worker \notin rtc.workers
       THEN Commit(Retire(World, t))
       ELSE IF ok THEN Commit(RegisterChannel(Retire(World, t), t.self, t.worker))
            ELSE MayFail(World) /\ Commit(Failed(Retire(World, t)))

\* The idle-close timer fires (channel.js:565-567).
ChannelIdle(c) ==
    /\ c \in DOMAIN channels
    /\ channels[c].closeTimeout
    /\ Commit(ChannelClose(World, c))

RECURSIVE CloseChannels(_, _)
CloseChannels(w, cs) ==
    IF cs = <<>> THEN w ELSE CloseChannels(ChannelClose(w, cs[1]), Tail(cs))

\* The worker wk emits "died": the pool's listener, registered by makeWorker
\* (ws.js:201-212), deletes it and calls makeWorker; then the listeners of
\* the channels made on it (channel.js:408-412), each attached until its
\* channel closes, close their channels in the order of their creation.
OnWorkerDied(w, wk) ==
    LET w1 == [w EXCEPT !.rtc.workers = @ \ {wk}, !.rtc.making = @ + 1]
        bound == {c \in DOMAIN w.channels :
                     w.channels[c].worker = wk /\ w.channels[c].onClose}
    IN CloseChannels(w1, SetToSeq(bound))

WorkerDied(wk) ==
    /\ wk \in rtc.workers
    /\ Commit(OnWorkerDied(World, wk))

\* makeWorker completes (ws.js:196-200): the new worker joins the pool, or
\* the call rejects and is logged (209-211).
WorkerMade(ok) ==
    /\ rtc.making > 0
    /\ IF ok
       THEN /\ rtc.made < MaxWorkers
            /\ Commit([World EXCEPT !.rtc = [workers |-> @.workers \cup {@.made + 1},
                                             making |-> @.making - 1,
                                             made |-> @.made + 1]])
       ELSE MayFail(World) /\ Commit(Failed([World EXCEPT !.rtc.making = @ - 1]))

\* Channel.closeAll (channel.js:444-448), the soft reset.
CloseAll ==
    /\ records # {}
    /\ Commit(CloseChannels(World, SetToSeq(records)))

\* A link's first frame, with valid credentials for channel c and session id
\* sid: ws.ts connect() (111-175), Channel.join (channel.js:429-439) and
\* Session.connect up to its first await.
Gateway(w, c, sid) ==
    IF c \notin w.records \/ IsFull(w, c)
    THEN w
    ELSE LET w1 == ChannelJoin(w, c, sid)
         IN ConnectStart(w1, Len(w1.sessions))

GatewayConnect(c, sid) == Commit(Gateway(World, c, sid))

\* session.ts:310-325, both createWebRtcTransport calls complete.
TransportsCreated(s, ok) ==
    /\ sessions[s].pc = "create"
    /\ IF ok
       THEN Commit([World EXCEPT
                      !.sessions[s].pc = "init",
                      !.sessions[s].transports = "open",
                      !.sessions[s].onCloseTransports = ~AlreadyClosed(World, s)])
       ELSE MayFail(World) /\ Commit(ConnectFailed(Failed(World), s))

\* session.ts:326-338, the INIT_TRANSPORTS request completes: the client's
\* answer needs the link; a closed link rejects the request.
InitTransportsAnswered(s, ok) ==
    /\ sessions[s].pc = "init"
    /\ IF ok
       THEN /\ sessions[s].link # "closed"
            /\ Commit([World EXCEPT !.sessions[s].caps = TRUE,
                                    !.sessions[s].pc =
                                       IF TransportGone(World, s) THEN "doomed" ELSE "bitrate"])
       ELSE IF sessions[s].link = "closed"
            THEN Commit(ConnectFailed(World, s))
            ELSE MayFail(World) /\ Commit(ConnectFailed(Failed(World), s))

\* session.ts:335-338, the two bitrate calls complete; then connect() goes on.
BitrateSet(s, ok) ==
    /\ sessions[s].pc \in {"bitrate", "doomed"}
    /\ IF ok
       THEN sessions[s].pc = "bitrate" /\ Commit(ConnectFinish(World, s))
       ELSE IF sessions[s].pc = "doomed"
            THEN Commit(ConnectFailed(World, s))
            ELSE MayFail(World) /\ Commit(ConnectFailed(Failed(World), s))

\* The callback of the connection deadline (session.ts:266-270).
OnConnectionTimeout(w, s) ==
    LET w1 == [w EXCEPT !.sessions[s].connTimer = FALSE]
    IN IF StateOf(w1, s) # S_CONNECTED THEN SessionClose(w1, s, C_TIMEOUT) ELSE w1

\* The connection deadline fires (session.ts:266-270).  On a CONNECTED session
\* the callback does nothing; that firing is left out, and the timer of such a
\* session counts as armed until close() clears it.
ConnectionTimeout(s) ==
    /\ sessions[s].connTimer
    /\ StateOf(World, s) # S_CONNECTED
    /\ Commit(OnConnectionTimeout(World, s))

\* A handler that changes the heap and the gateway's links.
AuthCommit(w, ls) ==
    /\ channels' = w.channels
    /\ records' = w.records
    /\ recordsByIssuer' = w.recordsByIssuer
    /\ sessions' = w.sessions
    /\ producers' = w.producers
    /\ consumers' = w.consumers
    /\ slots' = w.slots
    /\ tasks' = w.tasks
    /\ failures' = w.failures
    /\ rtc' = w.rtc
    /\ links' = ls
    /\ UNCHANGED <<bus, clock>>

\* A gateway without the link-close adapter.
LinkClosed_keepSession(s) ==
    /\ sessions[s].link # "closed"
    /\ Commit([World EXCEPT !.sessions[s].link = "closed"])

\* The link's "close" event (ws.ts:154-160): the link leaves the authenticated
\* set and the session is closed; the bus closes with the link.
LinkClosed(s) ==
    /\ sessions[s].link # "closed"
    /\ AuthCommit(SessionClose([World EXCEPT !.sessions[s].link = "closed"], s, WS_CLOSED),
                  AsSeq([l \in DOMAIN links |->
                           IF links[l].session = s
                           THEN [links[l] EXCEPT !.authenticated = FALSE]
                           ELSE links[l]]))

\* The link's "error" event (ws.ts:161-166).
LinkError(s) ==
    /\ sessions[s].link # "closed"
    /\ Commit(SessionClose(World, s, WS_ERROR))

\* POST /v1/disconnect for one session of an own channel (http.ts:119-158).
Disconnect(c, sid) ==
    /\ c \in records
    /\ channels[c].sessions[sid] # 0
    /\ Commit(SessionClose(World, channels[c].sessions[sid], KICKED))

\* ----------------------------------------------------------------- gateway
\* Key 0 is the global key (jwtKey); a channel's key is 0 when it has none.
Keys == 0..NumKeys

\* A token, by what parseJwt and verify (auth.ts:152-215) make of it: three
\* parts that decode to a header and claims ("ok"), anything that parseJwt
\* rejects ("garbage"), or three parts whose header decodes to the JSON value
\* null ("nullHeader").  `key` is the key it was signed with.
NoClaims ==
    [format |-> "garbage", alg |-> "none", key |-> 0, expired |-> FALSE,
     session_id |-> 0, sfu_channel_uuid |-> 0]
Tokens ==
    [format : {"ok"}, alg : {"HS256", "none"}, key : Keys, expired : BOOLEAN,
     session_id : 0..NumSessionIds, sfu_channel_uuid : 0..MaxChannels]
      \cup {[NoClaims EXCEPT !.format = f] : f \in {"garbage", "nullHeader"}}

\* A first frame: text that is not JSON ("invalid"), a JSON string (the bare
\* token of legacy clients) or a JSON object {channelUUID?, jwt}.
Frames ==
    [json : {"invalid"}, channelUUID : {0}, jwt : {NoClaims}]
      \cup [json : {"string"}, channelUUID : {0}, jwt : Tokens]
      \cup [json : {"object"}, channelUUID : 0..MaxChannels, jwt : Tokens]

\* verify (auth.ts:183-215): "ok" for the claims, or the error thrown.
Verify(token, key) ==
    IF token.format = "garbage" THEN "AuthenticationError"      \* 189-193
    ELSE IF token.format = "nullHeader" THEN "TypeError"        \* 195: header.alg
    ELSE IF token.alg # "HS256" THEN "AuthenticationError"      \* 196-198
    ELSE IF token.key # key THEN "AuthenticationError"          \* 199-202
    ELSE IF token.expired THEN "AuthenticationError"            \* 205-207
    ELSE "ok"

\* A gateway that verifies every token with the global key.
WsConnect_globalKey(w, frame) ==
    LET found == IF frame.channelUUID \in w.records THEN frame.channelUUID ELSE 0
        v == Verify(frame.jwt, 0)
    IN IF v # "ok" THEN [w |-> w, error |-> v]
       ELSE IF found = 0 \/ frame.jwt.session_id = 0
       THEN [w |-> w, error |-> "AuthenticationError"]
       ELSE IF IsFull(w, found) THEN [w |-> w, error |-> "OvercrowdedError"]
       ELSE [w |-> Gateway(w, found, frame.jwt.session_id), error |-> "none"]

\* A gateway whose legacy path ignores the channel's key.
WsConnect_legacyAny(w, frame) ==
    LET named == IF frame.channelUUID # 0 THEN frame.channelUUID
                 ELSE frame.jwt.sfu_channel_uuid
        found == IF named \in w.records THEN named ELSE 0
        v == Verify(frame.jwt, IF frame.channelUUID \in w.records
                               THEN w.channels[frame.channelUUID].key ELSE 0)
    IN IF v # "ok" THEN [w |-> w, error |-> v]
       ELSE IF found = 0 \/ frame.jwt.session_id = 0
       THEN [w |-> w, error |-> "AuthenticationError"]
       ELSE IF IsFull(w, found) THEN [w |-> w, error |-> "OvercrowdedError"]
       ELSE [w |-> Gateway(w, found, frame.jwt.session_id), error |-> "none"]

\* connect (ws.ts:111-175) with Channel.join (channel.js:429-439): the heap
\* afterwards and the error thrown, "none" when a session was created.
WsConnect(w, frame) ==
    LET first == IF frame.channelUUID \in w.records THEN frame.channelUUID ELSE 0
        v == Verify(frame.jwt, IF first # 0 THEN w.channels[first].key ELSE 0)
        legacy == frame.channelUUID = 0 /\ frame.jwt.sfu_channel_uuid # 0
        found == IF legacy
                 THEN IF frame.jwt.sfu_channel_uuid \in w.records
                      THEN frame.jwt.sfu_channel_uuid ELSE 0
                 ELSE first
    IN IF v # "ok" THEN [w |-> w, error |-> v]
       ELSE IF legacy /\ found # 0 /\ w.channels[found].key # 0
       THEN [w |-> w, error |-> "AuthenticationError"]
       ELSE IF found = 0 \/ frame.jwt.session_id = 0
       THEN [w |-> w, error |-> "AuthenticationError"]
       ELSE IF IsFull(w, found) THEN [w |-> w, error |-> "OvercrowdedError"]
       ELSE [w |-> Gateway(w, found, frame.jwt.session_id), error |-> "none"]

\* A gateway that reports a full channel as an authentication failure.
CloseCodeFor_noFull(error) ==
    IF error \in {"AuthenticationError", "OvercrowdedError"} THEN 4106 ELSE 1011

\* ws.ts:62-72, the close code for what the first-message handler caught.
CloseCodeFor(error) ==
    CASE error = "AuthenticationError" -> 4106
      [] error = "OvercrowdedError" -> 4109
      [] OTHER -> 1011

\* A new link (ws.ts:36-50): pending, its authentication deadline armed and
\* the one-shot handler of its first message attached.  `pending` and
\* `authenticated` tell whether the link is in unauthenticatedWebSockets and
\* in authenticatedWebSockets; `legacy` and `named` tell, once the first frame
\* came, whether it carried no channelUUID and which channel it named.
NewLink ==
    [state |-> "open", code |-> 0, timeout |-> TRUE, once |-> TRUE, pending |-> TRUE,
     authenticated |-> FALSE, session |-> 0, legacy |-> FALSE, named |-> 0]

\* A first-message handler that keeps the deadline armed when it refuses.
OnFirstMessage_keepTimer(w, ls, l, frame) ==
    LET r == IF frame.json = "invalid" THEN [w |-> w, error |-> "SyntaxError"]
             ELSE WsConnect(w, frame)
    IN [w |-> r.w,
        links |-> [ls EXCEPT ![l] =
           [@ EXCEPT !.once = FALSE,
                     !.timeout = r.error # "none",
                     !.state = IF r.error = "none" THEN @ ELSE "closing",
                     !.code = IF r.error = "none" THEN @ ELSE CloseCodeFor(r.error)]]]

\* The handler of a link's first message (ws.ts:53-76).
OnFirstMessage(w, ls, l, frame) ==
    LET r == IF frame.json = "invalid" THEN [w |-> w, error |-> "SyntaxError"]
             ELSE WsConnect(w, frame)
    IN [w |-> r.w,
        links |-> [ls EXCEPT ![l] =
           [@ EXCEPT !.once = FALSE, !.timeout = FALSE, !.pending = FALSE,
                     !.authenticated = TRUE,
                     !.legacy = frame.channelUUID = 0,
                     !.named = IF frame.channelUUID # 0 THEN frame.channelUUID
                               ELSE frame.jwt.sfu_channel_uuid,
                     !.session = IF r.error = "none" THEN Len(r.w.sessions) ELSE 0,
                     !.state = IF r.error = "none" THEN @ ELSE "closing",
                     !.code = IF r.error = "none" THEN @ ELSE CloseCodeFor(r.error)]]]

\* The callback of the authentication deadline (ws.ts:43-50).
OnAuthTimeout(ls, l) ==
    IF ls[l].state # "open"
    THEN [ls EXCEPT ![l].timeout = FALSE]
    ELSE [ls EXCEPT ![l].timeout = FALSE, ![l].state = "closing", ![l].code = 4107,
                    ![l].pending = FALSE]

\* Channel.create with a key and without WebRTC (channel.js:380-420, 466).
CreateKeyedChannel(i, key) ==
    /\ recordsByIssuer[i] = 0
    /\ Len(channels) < MaxChannels
    /\ LET w == RegisterChannel(World, i, 0)
       IN Commit([w EXCEPT !.channels[Len(w.channels)].key = key])

\* A client opens a link.
LinkOpened ==
    /\ Len(links) < MaxLinks
    /\ AuthCommit(World, Append(links, NewLink))

\* The first frame of a link arrives.
FirstMessage(l, frame) ==
    /\ links[l].once
    /\ links[l].state = "open"
    /\ LET r == OnFirstMessage(World, links, l, frame)
       IN AuthCommit(r.w, r.links)

\* The authentication deadline of a link fires.
AuthTimeout(l) ==
    /\ links[l].timeout
    /\ AuthCommit(World, OnAuthTimeout(links, l))

\* The client closes a link on which it never sent a frame; the gateway has
\* no listener for that.
LinkDropped(l) ==
    /\ links[l].once
    /\ links[l].state = "open"
    /\ AuthCommit(World, [links EXCEPT ![l].state = "closed"])

\* The close of a link that the gateway refused or timed out completes; no
\* listener of the gateway is attached to it.
LinkGone(l) ==
    /\ links[l].session = 0
    /\ links[l].state = "closing"
    /\ AuthCommit(World, [links EXCEPT ![l].state = "closed"])

\* -------------------------------------------------------------------- time
\* Time is counted in ticks.  A session carries the ticks since its connect()
\* (`age`, up to SessionTicks), the ticks since its INIT_TRANSPORTS request
\* was made (`reqAge`), the ticks until the next callback of its ping interval
\* (`pingIn`) and the ticks since its pending PING request was made (`pingAge`,
\* -1 when none is pending).  A timer fires when its time has come: time does
\* not pass a timer that is due.
Due(w, s) ==
    \/ w.sessions[s].connTimer /\ w.sessions[s].age >= SessionTicks
    \/ w.sessions[s].pc = "init" /\ w.sessions[s].reqAge >= RequestTicks
    \/ w.sessions[s].pingTimer /\ w.sessions[s].pingIn = 0
    \/ w.sessions[s].pingAge >= SessionTicks

Tick ==
    /\ \A s \in DOMAIN sessions : ~Due(World, s)
    /\ Commit([World EXCEPT !.sessions = AsSeq([s \in DOMAIN @ |->
          [@[s] EXCEPT
             !.age = IF @ < SessionTicks THEN @ + 1 ELSE @,
             !.reqAge = IF sessions[s].pc = "init" THEN @ + 1 ELSE @,
             !.pingIn = IF sessions[s].pingTimer THEN @ - 1 ELSE @,
             !.pingAge = IF @ >= 0 THEN @ + 1 ELSE @]])])

\* The connection deadline fires, timeouts.session after connect()
\* (session.ts:266-270).
ConnectionDeadline(s) ==
    /\ sessions[s].connTimer
    /\ sessions[s].age >= SessionTicks
    /\ Commit(OnConnectionTimeout(World, s))

\* The deadline of the INIT_TRANSPORTS request fires (part_003:100-111, with
\* the default timeout: session.ts:326-334 passes none); the request rejects
\* into the catch block of _initializeTransports.
RequestDeadline(s) ==
    /\ sessions[s].pc = "init"
    /\ sessions[s].reqAge >= RequestTicks
    /\ Commit(ConnectFailed(World, s))

\* A ping interval that stops after its first PING.
OnPingInterval_once(w, s) ==
    [w EXCEPT !.sessions[s].pingAge = 0, !.sessions[s].pingTimer = FALSE]

\* The callback of the ping interval up to its await (session.ts:271-276): a
\* PING request with the timeout timeouts.session.
OnPingInterval(w, s) ==
    [w EXCEPT !.sessions[s].pingAge = 0, !.sessions[s].pingIn = PingTicks]

\* The catch block of the ping callback (session.ts:277-279).
OnPingRejected(w, s) ==
    SessionClose([w EXCEPT !.sessions[s].pingAge = -1], s, P_TIMEOUT)

\* The ping interval fires, every timeouts.ping.
PingInterval(s) ==
    /\ sessions[s].pingTimer
    /\ sessions[s].pingIn = 0
    /\ Commit(OnPingInterval(World, s))

\* The client's response to the pending PING arrives.
PingAnswered(s) ==
    /\ sessions[s].pingAge >= 0
    /\ sessions[s].link = "open"
    /\ Commit([World EXCEPT !.sessions[s].pingAge = -1])

\* The deadline of the pending PING request fires.
PingDeadline(s) ==
    /\ sessions[s].pingAge >= SessionTicks
    /\ Commit(OnPingRejected(World, s))

\* Time passes for the idle timers of the channels.
ChannelTick ==
    /\ \A c \in DOMAIN channels : ~(channels[c].closeTimeout /\ channels[c].idleIn = 0)
    /\ \E c \in DOMAIN channels : channels[c].closeTimeout
    /\ Commit([World EXCEPT !.channels = AsSeq([c \in DOMAIN @ |->
          [@[c] EXCEPT !.idleIn = IF channels[c].closeTimeout THEN @ - 1 ELSE @]])])

\* The idle timer fires, timeouts.channel after it was armed
\* (channel.js:565-567).
ChannelDeadline(c) ==
    /\ channels[c].closeTimeout
    /\ channels[c].idleIn = 0
    /\ Commit(ChannelClose(World, c))

\* --------------------------------------------------------------- broadcast
Messages == 1..NumMessages

\* A broadcast that is sent to every session of the server.
OnBroadcast_all(w, s, m) ==
    [w EXCEPT !.sessions = AsSeq([x \in DOMAIN @ |->
        [@[x] EXCEPT !.heard =
            Append(@, [senderId |-> w.sessions[s].sid, message |-> m])]])]

\* Session._handleMessage, case BROADCAST (session.ts:517-525): _broadcast
\* (204-217) sends BROADCAST{senderId, message} on the bus of each target;
\* `heard` is what a session's client was sent.
OnBroadcast(w, s, m) ==
    [w EXCEPT !.sessions = AsSeq([x \in DOMAIN @ |->
        IF x \in BroadcastTargets(w, s)
        THEN [@[x] EXCEPT !.heard =
                 Append(@, [senderId |-> w.sessions[s].sid, message |-> m])]
        ELSE @[x]])]

\* A client sends BROADCAST{m} on its link; bus.onMessage is set by connect()
\* (session.ts:263).
ClientBroadcast(s, m) ==
    /\ sessions[s].log # <<>>
    /\ sessions[s].link = "open"
    /\ \A x \in DOMAIN sessions : Len(sessions[x].heard) < MaxHeard
    /\ Commit(OnBroadcast(World, s, m))

\* ------------------------------------------------------------- /disconnect
\* The address a channel was created from (channel.js:465).  An issuer of the
\* model is a pair (remoteAddress, iss) (channel.js:386); each pair has an
\* address of its own.
AddressOf(i) == i
Addresses == {AddressOf(i) : i \in Issuers}

RECURSIVE KickEach(_, _, _)
\* http.ts:142-148: close the sessions of channel c with the listed ids that
\* the channel holds.
KickEach(w, c, ids) ==
    IF ids = <<>> THEN w
    ELSE LET s == w.channels[c].sessions[ids[1]]
         IN KickEach(IF s = 0 THEN w ELSE SessionClose(w, s, KICKED), c, Tail(ids))

RECURSIVE DisconnectEntries_anyAddress(_, _, _)
\* A handler that disconnects from every channel, whoever asks.
DisconnectEntries_anyAddress(w, addr, entries) ==
    IF entries = <<>> THEN w
    ELSE DisconnectEntries_anyAddress(
            IF entries[1].uuid \notin w.records THEN w
            ELSE KickEach(w, entries[1].uuid, entries[1].ids),
            addr, Tail(entries))

RECURSIVE DisconnectEntries(_, _, _)
\* http.ts:128-149: the entries of claims.sessionIdsByChannel, in order.
DisconnectEntries(w, addr, entries) ==
    IF entries = <<>> THEN w
    ELSE LET c == entries[1].uuid
             w1 == IF c \notin w.records THEN w
                   ELSE IF AddressOf(w.channels[c].issuer) # addr THEN w
                   ELSE KickEach(w, c, entries[1].ids)
         IN DisconnectEntries(w1, addr, Tail(entries))

\* POST /v1/disconnect (http.ts:119-158), after the body was read: the heap
\* afterwards and the status of the response.  A token without the claim
\* sessionIdsByChannel makes Object.entries throw.
HttpDisconnect(w, addr, req) ==
    IF req.body # "string" THEN [w |-> w, status |-> 400]
    ELSE IF Verify(req.jwt, 0) # "ok" THEN [w |-> w, status |-> 422]
    ELSE IF ~req.hasList THEN [w |-> w, status |-> 422]
    ELSE [w |-> DisconnectEntries(w, addr, req.list), status |-> 200]

\* A POST /v1/disconnect request from address addr is served.
PostDisconnect(addr, req) == Commit(HttpDisconnect(World, addr, req).w)

\* --------------------------------------------------------------------- Bus
\* An event of the bus's log.
Ev(e, id, v) == [e |-> e, id |-> id, v |-> v]

Logged(b, ev) == [b EXCEPT !.log = Append(@, ev)]

\* Bus._startGathering (part_003:180-185): a new timer, whose handle is kept in
\* _batchTimeout.
Bus_startGathering(b) ==
    [b EXCEPT !.timerCount = @ + 1,
              !.timers = @ \cup {b.timerCount + 1},
              !.batchTimeout = b.timerCount + 1]

\* A flush that forgets to empty the queue.
Bus_flush_keepQueue(b) ==
    IF b.messageQueue # <<>>
    THEN Bus_startGathering(Logged(b, Ev("write", 0, b.messageQueue)))
    ELSE b

\* Bus._flush (part_003:172-178).
Bus_flush(b) ==
    IF b.messageQueue # <<>>
    THEN Bus_startGathering([Logged(b, Ev("write", 0, b.messageQueue)) EXCEPT
                                !.messageQueue = <<>>])
    ELSE b

\* Bus._batch (part_003:163-170).
Bus_batch(b, payload) ==
    LET b1 == [b EXCEPT !.messageQueue = Append(@, payload)]
    IN IF b1.batchTimeout # 0 THEN b1 ELSE Bus_flush(b1)

\* Bus._sendPayload (part_003:140-155); close() replaces it by a function that
\* does nothing (part_003:87).
Bus_sendPayload(b, payload, batch) ==
    IF b.muted THEN b
    ELSE IF batch THEN Bus_batch(b, payload)
    ELSE Logged(b, Ev("write", 0, <<payload>>))

\* An outbound payload (part_003:4-11).  Its message tells which payload it
\* is: the n-th that was handed to the bus, and whether for batching.
Payload(b, needResponse, responseTo, batch) ==
    [message |-> [n |-> b.calls + 1, batch |-> batch],
     needResponse |-> needResponse, responseTo |-> responseTo]

\* Bus.send (part_003:113-116).
Bus_send(b, batch) ==
    Bus_sendPayload([b EXCEPT !.calls = @ + 1], Payload(b, 0, 0, batch), batch)

\* Bus.request (part_003:100-111); request id n stands for "s_<bus>_<n-1>",
\* and the deadline timer of a request is armed while its entry is pending.
Bus_request(b, batch) ==
    LET id == b.requestCount + 1
        b1 == [Logged(b, Ev("request", id, 0)) EXCEPT
                 !.requestCount = id, !.pendingRequests = @ \cup {id}, !.calls = @ + 1]
    IN Bus_sendPayload(b1, Payload(b, id, 0, batch), batch)

RECURSIVE RejectEach(_, _)
\* part_003:88-91
RejectEach(b, ids) ==
    IF ids = <<>> THEN b
    ELSE RejectEach(Logged(b, Ev("reject", ids[1], "bus closed")), Tail(ids))

\* Bus.close (part_003:83-94).
Bus_close(b) ==
    LET b1 == [Logged(b, Ev("close", 0, 0)) EXCEPT
                 !.timers = @ \ {b.batchTimeout},
                 !.handlers = FALSE,
                 !.muted = TRUE]
        b2 == RejectEach(b1, SetToSeq(b1.pendingRequests))
    IN [b2 EXCEPT !.pendingRequests = {}, !.listening = FALSE]

\* A bus that resolves on every response payload, pending or not.
Bus_handlePayload_always(b, payload) ==
    IF payload.responseTo # 0
    THEN [Logged(Logged(b, Ev("response", payload.responseTo, payload.message)),
                 Ev("resolve", payload.responseTo, payload.message))
            EXCEPT !.pendingRequests = @ \ {payload.responseTo}]
    ELSE b

\* Bus._handlePayload (part_003:203-221), up to its await.
Bus_handlePayload(b, payload) ==
    IF payload.responseTo # 0
    THEN LET b1 == Logged(b, Ev("response", payload.responseTo, payload.message))
         IN IF payload.responseTo \in b1.pendingRequests
            THEN [Logged(b1, Ev("resolve", payload.responseTo, payload.message)) EXCEPT
                     !.pendingRequests = @ \ {payload.responseTo}]
            ELSE b1
    ELSE IF payload.needResponse # 0
    THEN IF b.handlers
         THEN [Logged(b, Ev("onRequest", payload.needResponse, payload.message)) EXCEPT
                  !.answering = @ \cup {payload.needResponse}]
         ELSE Bus_sendPayload([b EXCEPT !.calls = @ + 1],
                              Payload(b, 0, payload.needResponse, FALSE), FALSE)
    ELSE IF b.handlers
    THEN Logged(b, Ev("onMessage", 0, payload.message))
    ELSE b

\* The payloads the remote side may send: a response to a request id (issued
\* or not), a request, a plain message.
Inbound ==
    [message : 1..NumValues, needResponse : {0}, responseTo : 1..(bus.requestCount + 1)]
      \cup {[message |-> 1, needResponse |-> bus.frames + 1, responseTo |-> 0],
            [message |-> 1, needResponse |-> 0, responseTo |-> 0]}

BusCommit(b) ==
    /\ bus' = b
    /\ UNCHANGED <<channels, records, recordsByIssuer, sessions, producers, consumers,
                   slots, tasks, failures, links, rtc, clock>>

\* The owner sends a message.
BusSend(batch) ==
    /\ BusCommit(Bus_send(bus, batch))

\* The owner makes a request.
BusRequest(batch) ==
    /\ BusCommit(Bus_request(bus, batch))

\* The link delivers a frame (part_003:187-197); one payload per frame.  The
\* link calls the listener only while it is attached.
BusReceive(payload) ==
    /\ bus.link = "open"
    /\ BusCommit(IF bus.listening
                 THEN Bus_handlePayload([bus EXCEPT !.frames = @ + 1], payload)
                 ELSE [bus EXCEPT !.frames = @ + 1])

\* onRequest's promise resolves: the response is sent (part_003:215-216).
BusAnswered(id) ==
    /\ id \in bus.answering
    /\ BusCommit(Bus_sendPayload([bus EXCEPT !.answering = @ \ {id}, !.calls = @ + 1],
                                 Payload(bus, 0, id, FALSE), FALSE))

\* The callback of batch timer k (part_003:181-184): flush, then forget the
\* handle in _batchTimeout.
Bus_timerFired(b, k) ==
    [Bus_flush([b EXCEPT !.timers = @ \ {k}]) EXCEPT !.batchTimeout = 0]

\* A batch timer fires.  All batch timers of a bus have the same delay, so
\* they fire in the order in which they were armed.
BusBatchTimer(k) ==
    /\ k \in bus.timers
    /\ \A j \in bus.timers : k <= j
    /\ BusCommit(Bus_timerFired(bus, k))

\* The deadline of a pending request fires (part_003:104-107).
BusDeadline(id) ==
    /\ id \in bus.pendingRequests
    /\ BusCommit([Logged(Logged(bus, Ev("deadline", id, 0)), Ev("reject", id, "timed out"))
                    EXCEPT !.pendingRequests = @ \ {id}])

\* The owner closes the bus.
BusClose ==
    /\ ~bus.muted
    /\ BusCommit(Bus_close(bus))

\* The link's "close" event (part_003:78-80).
BusLinkClosed ==
    /\ bus.link = "open"
    /\ BusCommit(Bus_close([bus EXCEPT !.link = "closed"]))

Sess == DOMAIN sessions
Tasks == BagToSet(tasks)

\* ------------------------------------------------------------------- media
\* A client's frame is taken from an open link of a CONNECTED session, while
\* no connect() is in progress and fewer than MaxTasks operations are in
\* flight.
Accepts(s) ==
    /\ StateOf(World, s) = S_CONNECTED
    /\ sessions[s].link = "open"
    /\ channels[sessions[s].chan].router
    /\ \A x \in Sess : sessions[x].pc \in {"done", "failed"}
    /\ InFlight(World) < MaxTasks

NewProducer(s, t) == [owner |-> s, type |-> t, paused |-> FALSE, closed |-> FALSE, reg |-> TRUE]

NewConsumer(t) ==
    [owner |-> t.self, peer |-> t.peer, type |-> t.type, producer |-> t.snap[t.type],
     paused |-> TRUE, closed |-> FALSE, client |-> FALSE, held |-> FALSE]

\* The engine producers created so far or being created.
Produced == Len(producers) + Cardinality({t \in Tasks : t.kind = "produce"})

\* The INIT_PRODUCER request (session.ts:605-614), up to `await produce()`.
InitProducer(s, ty) ==
    /\ Accepts(s)
    /\ LET old == sessions[s].producers[ty]
           w1 == IF old = 0 THEN World
                 ELSE [World EXCEPT !.producers[old].closed = TRUE,
                                    !.sessions[s].producers[ty] = 0]
       IN Commit(Spawn(w1, [NewTask("produce", s) EXCEPT
                              !.type = ty, !.doomed = TransportGone(w1, s)]))

\* `await produce()` completes (session.ts:615-633).
ProduceDone(t, ok) ==
    /\ t.kind = "produce"
    /\ LET w == Retire(World, t)
           p == Len(w.producers) + 1
       IN IF ok
          THEN /\ ~t.doomed
               /\ Commit(UpdateRemoteConsumers(
                     [w EXCEPT !.producers = Append(@, NewProducer(t.self, t.type)),
                               !.sessions[t.self].producers[t.type] = p],
                     t.self))
          ELSE IF t.doomed THEN Commit(HandleError(w, t.self))
               ELSE MayFail(w) /\ Commit(HandleError(Failed(w), t.self))

\* `await produce()` rejects (session.ts:615-617), as often as the engine
\* makes it.
ProduceRejected(t) ==
    /\ t.kind = "produce"
    /\ Commit(HandleError(Retire(World, t), t.self))

\* The PRODUCTION_CHANGE message (session.ts:545-562), up to its await.
ProductionChange(s, ty, active) ==
    /\ Accepts(s)
    /\ sessions[s].producers[ty] # 0
    /\ LET p == sessions[s].producers[ty]
       IN Commit(Spawn(World, [NewTask("prodChange", s) EXCEPT
                                 !.type = ty, !.cur = p, !.want = ~active,
                                 !.doomed = producers[p].closed]))

\* producer.pause()/resume() completes (session.ts:564-566).  A rejection
\* leaves the handler; nothing else happens.
ProductionChanged(t, ok) ==
    /\ t.kind = "prodChange"
    /\ LET w == Retire(World, t)
       IN IF ok
          THEN /\ ~t.doomed
               /\ Commit(UpdateRemoteConsumers([w EXCEPT !.producers[t.cur].paused = t.want],
                                               t.self))
          ELSE IF t.doomed THEN Commit(w) ELSE MayFail(w) /\ Commit(Failed(w))

\* The CONSUMPTION_CHANGE message (session.ts:526-544) for one type, up to
\* its await.
ConsumptionChange(s, sid, ty, active) ==
    /\ Accepts(s)
    /\ sessions[s].consumers[sid] # 0
    /\ slots[sessions[s].consumers[sid]].slot[ty] # 0
    /\ LET c == slots[sessions[s].consumers[sid]].slot[ty]
       IN Commit(Spawn(World, [NewTask("consChange", s) EXCEPT
                                 !.type = ty, !.cur = c, !.want = ~active,
                                 !.doomed = consumers[c].closed]))

\* consumer.pause()/resume() of CONSUMPTION_CHANGE completes; `client` notes
\* that the client itself set the consumer's paused flag, `held` that its last
\* CONSUMPTION_CHANGE for the consumer paused it.
ConsumptionChanged(t, ok) ==
    /\ t.kind = "consChange"
    /\ LET w == Retire(World, t)
       IN IF ok
          THEN ~t.doomed /\ Commit([w EXCEPT !.consumers[t.cur].paused = t.want,
                                             !.consumers[t.cur].client = TRUE,
                                             !.consumers[t.cur].held = t.want])
          ELSE IF t.doomed THEN Commit(w) ELSE MayFail(w) /\ Commit(Failed(w))

\* `await this._stcTransport.consume()` completes (session.ts:413-417); the
\* INIT_CONSUMER request is sent.
ConsumeCreated(t, ok) ==
    /\ t.kind = "consume"
    /\ LET w == Retire(World, t)
       IN IF ok
          THEN /\ ~t.doomed
               /\ Len(consumers) < MaxConsumers
               /\ Commit(Spawn([w EXCEPT !.consumers = Append(@, NewConsumer(t))],
                               [t EXCEPT !.kind = "initConsumer",
                                         !.cur = Len(w.consumers) + 1]))
          ELSE IF t.doomed THEN Commit(ConsumeCatch(w, t))
               ELSE MayFail(w) /\ Commit(ConsumeCatch(Failed(w), t))

\* The INIT_CONSUMER request completes (session.ts:418-435): the consumer in
\* the slot is closed and the new one takes its place, then its paused flag
\* is synchronised.
ConsumeInitResponse(t, ok) ==
    /\ t.kind = "initConsumer"
    /\ LET w == Retire(World, t)
           old == w.slots[t.cobj].slot[t.type]
       IN IF ok
          THEN /\ sessions[t.self].link # "closed"
               /\ Commit(SyncConsumerState(
                     [w EXCEPT !.consumers = CloseConsumers(@, {old} \ {0}),
                               !.slots[t.cobj].slot[t.type] = t.cur],
                     t))
          ELSE IF sessions[t.self].link = "closed" THEN Commit(ConsumeCatch(w, t))
               ELSE MayFail(w) /\ Commit(ConsumeCatch(Failed(w), t))

\* consumer.pause()/resume() of _syncConsumerState completes
\* (session.ts:454-458); the loop goes on with the next type.
ConsumeSynced(t, ok) ==
    /\ t.kind = "sync"
    /\ LET w == Retire(World, t)
       IN IF ok
          THEN /\ ~t.doomed
               /\ Commit(RunLoop([w EXCEPT !.consumers[t.cur].paused = t.want],
                                 [t EXCEPT !.type = @ + 1]))
          ELSE IF t.doomed THEN Commit(ConsumeCatch(w, t))
               ELSE MayFail(w) /\ Commit(ConsumeCatch(Failed(w), t))

\* A recovery timer fires (session.ts:471-473).
RecoveryFire(s, sid) ==
    /\ sessions[s].recover[sid] # 0
    /\ sessions[s].consumers[sid] # 0 \/ Len(slots) < MaxSlots
    /\ Commit(Consume([World EXCEPT !.sessions[s].recover[sid] = 0,
                                    !.sessions[s].timers[sid] = @ - 1],
                      s, sessions[s].recover[sid]))

\* Session ids and issuers are interchangeable: a new one is the least unused.
KnownIds == {sessions[s].sid : s \in Sess}
UsableIds == {i \in SessionIds : i \in KnownIds \/ \A j \in SessionIds \ KnownIds : i <= j}
KnownIssuers == {channels[c].issuer : c \in DOMAIN channels}
                   \cup {t.self : t \in {u \in Tasks : u.kind \in {"getWorker", "createRouter"}}}
UsableIssuers == {i \in Issuers : i \in KnownIssuers \/ \A j \in Issuers \ KnownIssuers : i <= j}

\* Session lifecycle: one channel, with a router or without, two sessions,
\* the ways a session closes while it connects or afterwards, engine and bus
\* failures; no client produces media.
Next ==
    \/ \E ok \in BOOLEAN : Len(channels) = 0 /\ tasks = EmptyBag /\ CreateChannel(1, ok)
    \/ \E t \in Tasks : WorkerObtained(t, TRUE)
    \/ \E t \in Tasks : RouterCreated(t, TRUE)
    \/ \E c \in DOMAIN channels : ChannelIdle(c)
    \/ \E c \in DOMAIN channels : channels[c].onClose /\ WorkerDied(channels[c].worker)
    \/ \E c \in DOMAIN channels, sid \in UsableIds :
          Len(sessions) < MaxSessions /\ GatewayConnect(c, sid)
    \/ \E s \in Sess, ok \in BOOLEAN : TransportsCreated(s, ok)
    \/ \E s \in Sess, ok \in BOOLEAN : InitTransportsAnswered(s, ok)
    \/ \E s \in Sess, ok \in BOOLEAN : BitrateSet(s, ok)
    \/ \E s \in Sess : ConnectionTimeout(s)
    \/ \E s \in Sess : LinkClosed(s)
    \/ \E s \in Sess : LinkError(s)
    \/ \E c \in DOMAIN channels, sid \in SessionIds : Disconnect(c, sid)

Spec == Init /\ [][Next]_vars

\* Channel registry: several channels and issuers, overlapping creations,
\* every way a channel closes, with at most MaxChanSessions sessions, whose
\* link may close or fail; the engine and the bus do not fail.
NextChan ==
    \/ \E i \in UsableIssuers, b \in BOOLEAN : CreateChannel(i, b)
    \/ \E t \in Tasks : WorkerObtained(t, TRUE)
    \/ \E t \in Tasks : RouterCreated(t, TRUE)
    \/ \E c \in DOMAIN channels : ChannelIdle(c)
    \/ \E c \in DOMAIN channels : channels[c].onClose /\ WorkerDied(channels[c].worker)
    \/ CloseAll
    \/ \E c \in DOMAIN channels, sid \in UsableIds :
          Len(sessions) < MaxChanSessions /\ GatewayConnect(c, sid)
    \/ \E s \in Sess : TransportsCreated(s, TRUE)
    \/ \E s \in Sess : InitTransportsAnswered(s, TRUE)
    \/ \E s \in Sess : BitrateSet(s, TRUE)
    \/ \E s \in Sess : LinkClosed(s)
    \/ \E s \in Sess : LinkError(s)
    \/ \E c \in DOMAIN channels, sid \in SessionIds : Disconnect(c, sid)

SpecChan == Init /\ [][NextChan]_vars

\* Joining: data-only channels of one issuer and more joins than a channel has
\* room for, with new and with present ids; sessions leave by their link, by
\* a forced disconnect, by replacement and with their channel.
NextJoin ==
    \/ CreateChannel(1, FALSE)
    \/ \E c \in DOMAIN channels : ChannelIdle(c)
    \/ \E c \in DOMAIN channels, sid \in UsableIds :
          Len(sessions) < MaxJoinSessions /\ GatewayConnect(c, sid)
    \/ \E s \in Sess : LinkClosed(s)
    \/ \E c \in DOMAIN channels, sid \in SessionIds : Disconnect(c, sid)

SpecJoin == Init /\ [][NextJoin]_vars

\* Media: one channel with a router and two sessions that connect without
\* failure, produce, pause and resume (each PRODUCTION_CHANGE flips the
\* producer), change their consumption and consume each other, while links
\* close and the steps of consume() fail within the failure budget.
NextMedia ==
    \/ Len(channels) = 0 /\ tasks = EmptyBag /\ CreateChannel(1, TRUE)
    \/ \E t \in Tasks : WorkerObtained(t, TRUE)
    \/ \E t \in Tasks : RouterCreated(t, TRUE)
    \/ \E c \in DOMAIN channels, sid \in UsableIds :
          /\ Len(sessions) < MaxMediaSessions
          /\ sid \notin KnownIds
          /\ GatewayConnect(c, sid)
    \/ \E s \in Sess : TransportsCreated(s, TRUE)
    \/ \E s \in Sess : InitTransportsAnswered(s, TRUE)
    \/ \E s \in Sess : BitrateSet(s, TRUE)
    \/ \E s \in Sess : LinkClosed(s)
    \/ \E s \in Sess, ty \in Types : Produced < MaxProducers /\ InitProducer(s, ty)
    \/ \E t \in Tasks : ProduceDone(t, TRUE)
    \/ \E s \in Sess, ty \in Types :
          ProductionChange(s, ty, producers[sessions[s].producers[ty]].paused)
    \/ \E t \in Tasks : ProductionChanged(t, TRUE)
    \/ \E s \in Sess, sid \in SessionIds, ty \in Types, b \in BOOLEAN :
          ConsumptionChange(s, sid, ty, b)
    \/ \E t \in Tasks : ConsumptionChanged(t, TRUE)
    \/ \E t \in Tasks, ok \in BOOLEAN : ConsumeCreated(t, ok)
    \/ \E t \in Tasks, ok \in BOOLEAN : ConsumeInitResponse(t, ok)
    \/ \E t \in Tasks, ok \in BOOLEAN : ConsumeSynced(t, ok)
    \/ \E s \in Sess, sid \in SessionIds : RecoveryFire(s, sid)

SpecMedia == Init /\ [][NextMedia]_vars

\* The first frames the clients send: frames that are not JSON, tokens that
\* cannot be parsed, and well-formed unexpired tokens signed with any key for
\* any session id, with a channelUUID or (legacy) a channel claim.
SampleTokens ==
    [format : {"ok"}, alg : {"HS256"}, key : Keys, expired : {FALSE},
     session_id : UsableIds \cup {0}, sfu_channel_uuid : 0..MaxChannels]

SampleFrames ==
    [json : {"invalid"}, channelUUID : {0}, jwt : {NoClaims}]
      \cup [json : {"string"}, channelUUID : {0}, jwt : SampleTokens]
      \cup [json : {"object"}, channelUUID : 1..MaxChannels,
            jwt : {t \in SampleTokens : t.sfu_channel_uuid = 0}
                     \cup {[NoClaims EXCEPT !.format = f] : f \in {"garbage", "nullHeader"}}]

\* Authentication: two channels, one without a key and one with key 1 of its
\* own, links that open, send their first frame, stay silent until the deadline
\* or are dropped, and sessions that leave again.
NextAuth ==
    \/ Len(channels) < MaxChannels /\ CreateChannel(1, FALSE)
    \/ CreateKeyedChannel(2, 1)
    \/ LinkOpened
    \/ \E l \in DOMAIN links, f \in SampleFrames : FirstMessage(l, f)
    \/ \E l \in DOMAIN links : AuthTimeout(l)
    \/ \E l \in DOMAIN links : LinkDropped(l)
    \/ \E s \in Sess : LinkClosed(s)

SpecAuth == Init /\ [][NextAuth]_vars

\* The bus of one link: requests, batched or not, and plain sends, the frames
\* of the remote side, the batch timers and the request deadlines, and the close of
\* the bus by its owner or with its link.
NextBus ==
    \/ bus.calls < MaxBusCalls /\ BusSend(FALSE)
    \/ \E batch \in BOOLEAN : bus.calls < MaxBusCalls /\ BusRequest(batch)
    \/ \E payload \in Inbound :
          bus.frames < MaxBusFrames /\ bus.calls < MaxBusCalls /\ BusReceive(payload)
    \/ \E id \in bus.answering : BusAnswered(id)
    \/ \E k \in bus.timers : BusBatchTimer(k)
    \/ \E id \in bus.pendingRequests : BusDeadline(id)
    \/ BusClose
    \/ BusLinkClosed

SpecBus == Init /\ [][NextBus]_vars

\* Batching: more payloads, batched or not, one of them a batched request and
\* one the response to a request of the remote side, the batch timers and the
\* close of the bus.
NextBatch ==
    \/ \E batch \in BOOLEAN : bus.calls < MaxBatchCalls /\ BusSend(batch)
    \/ bus.requestCount = 0 /\ bus.calls < MaxBatchCalls /\ BusRequest(TRUE)
    \/ \E id \in bus.pendingRequests : BusDeadline(id)
    \/ /\ bus.frames = 0
       /\ BusReceive([message |-> 1, needResponse |-> 1, responseTo |-> 0])
    \/ \E id \in bus.answering : bus.calls < MaxBatchCalls /\ BusAnswered(id)
    \/ \E k \in bus.timers : BusBatchTimer(k)
    \/ BusClose
    \/ BusLinkClosed

SpecBatch == Init /\ [][NextBatch]_vars

\* The session ids a /disconnect request lists for one channel: different
\* ids, in any order.
IdLists ==
    {ids \in UNION {[1..n -> SessionIds] : n \in 0..MaxListed} :
        \A i, j \in DOMAIN ids : i # j => ids[i] # ids[j]}

\* The claim sessionIdsByChannel: up to MaxEntries channels, each once, with
\* up to MaxListed session ids in all.
EntryLists ==
    {es \in UNION {[1..n -> [uuid : 1..MaxChannels, ids : IdLists]] : n \in 0..MaxEntries} :
        /\ \A i, j \in DOMAIN es : i # j => es[i].uuid # es[j].uuid
        /\ Len(es) = MaxEntries => Len(es[1].ids) + Len(es[2].ids) <= MaxListed}

\* A token signed with the global key that has not expired.
GoodToken == [NoClaims EXCEPT !.format = "ok", !.alg = "HS256"]

\* The /disconnect requests: a signed token with the claim, and one request
\* each whose body is not a string, whose token is signed with another key,
\* and whose token lacks the claim.
SampleRequests ==
    [body : {"string"}, jwt : {GoodToken}, hasList : {TRUE}, list : EntryLists]
      \cup {[body |-> "object", jwt |-> GoodToken, hasList |-> TRUE, list |-> <<>>],
            [body |-> "string", jwt |-> [GoodToken EXCEPT !.key = 1], hasList |-> TRUE,
             list |-> <<[uuid |-> 1, ids |-> <<1>>]>>],
            [body |-> "string", jwt |-> GoodToken, hasList |-> FALSE, list |-> <<>>]}

\* Forced disconnect: data-only channels created from two addresses, sessions
\* that join them, with new and with present ids, and leave by their link,
\* and /disconnect requests from both addresses.
NextHttp ==
    \/ \E i \in UsableIssuers : CreateChannel(i, FALSE)
    \/ \E c \in DOMAIN channels, sid \in UsableIds :
          Len(sessions) < MaxJoinSessions /\ GatewayConnect(c, sid)
    \/ \E s \in Sess : LinkClosed(s)
    \/ \E addr \in Addresses, req \in SampleRequests : PostDisconnect(addr, req)

SpecHttp == Init /\ [][NextHttp]_vars

\* Deadlines: one channel, with a router or without, sessions that connect
\* while time passes, a client that answers INIT_TRANSPORTS and PING or does
\* not, the deadlines of connect(), of the requests and the ping interval; no
\* session is closed from outside.
NextTime ==
    \/ \E ok \in BOOLEAN : Len(channels) = 0 /\ tasks = EmptyBag /\ CreateChannel(1, ok)
    \/ \E t \in Tasks : WorkerObtained(t, TRUE)
    \/ \E t \in Tasks : RouterCreated(t, TRUE)
    \/ \E c \in DOMAIN channels, sid \in UsableIds :
          /\ Len(sessions) < MaxTimedSessions
          /\ sid \notin KnownIds
          /\ GatewayConnect(c, sid)
    \/ \E s \in Sess : TransportsCreated(s, TRUE)
    \/ \E s \in Sess : InitTransportsAnswered(s, TRUE)
    \/ \E s \in Sess : BitrateSet(s, TRUE)
    \/ Tick
    \/ \E s \in Sess : ConnectionDeadline(s)
    \/ \E s \in Sess : RequestDeadline(s)
    \/ \E s \in Sess : PingInterval(s)
    \/ \E s \in Sess : PingAnswered(s)
    \/ \E s \in Sess : PingDeadline(s)

SpecTime == Init /\ [][NextTime]_vars

\* Broadcasts: channels of two issuers, with a router or without, created one
\* after the other before the first session joins; sessions that join and
\* connect without failure, clients that send BROADCAST, links that close.
NextCast ==
    \/ \E i \in UsableIssuers, ok \in BOOLEAN :
          sessions = <<>> /\ tasks = EmptyBag /\ CreateChannel(i, ok)
    \/ \E t \in Tasks : WorkerObtained(t, TRUE)
    \/ \E t \in Tasks : RouterCreated(t, TRUE)
    \/ \E c \in DOMAIN channels, sid \in UsableIds :
          /\ Len(sessions) < MaxCastSessions
          /\ tasks = EmptyBag
          /\ GatewayConnect(c, sid)
    \/ \E s \in Sess : TransportsCreated(s, TRUE)
    \/ \E s \in Sess : InitTransportsAnswered(s, TRUE)
    \/ \E s \in Sess : BitrateSet(s, TRUE)
    \/ \E s \in Sess : LinkClosed(s)
    \/ \E s \in Sess, m \in Messages : ClientBroadcast(s, m)

SpecCast == Init /\ [][NextCast]_vars

\* Idle channels: channels of two issuers without a router, sessions that join
\* (with new and with present ids) and leave by their link, while time passes
\* for the idle timers; the sessions' own timers do not fire.
NextIdle ==
    \/ \E i \in UsableIssuers : CreateChannel(i, FALSE)
    \/ \E c \in DOMAIN channels, sid \in UsableIds :
          /\ Len(sessions) < MaxIdleSessions
          /\ ~channels[c].closed
          /\ GatewayConnect(c, sid)
    \/ \E s \in Sess : LinkClosed(s)
    \/ ChannelTick
    \/ \E c \in DOMAIN channels : ChannelDeadline(c)

SpecIdle == Init /\ [][NextIdle]_vars

\* Workers: channels of two issuers, with a router or without, on the workers
\* the pool hands out; sessions that join and connect without failure; any
\* worker of the pool may die, and its replacement is made.
WorkerIds == 1..MaxWorkers

NextRtc ==
    \/ \E i \in UsableIssuers, ok \in BOOLEAN : CreateChannel(i, ok)
    \/ \E t \in Tasks, wk \in WorkerIds : WorkerPicked(t, wk)
    \/ \E t \in Tasks : NoWorker(t)
    \/ \E t \in Tasks : RouterCreated(t, TRUE)
    \/ \E c \in DOMAIN channels, sid \in UsableIds :
          /\ Len(sessions) < MaxRtcSessions
          /\ sid \notin KnownIds
          /\ GatewayConnect(c, sid)
    \/ \E s \in Sess : TransportsCreated(s, TRUE)
    \/ \E s \in Sess : InitTransportsAnswered(s, TRUE)
    \/ \E s \in Sess : BitrateSet(s, TRUE)
    \/ \E wk \in WorkerIds : WorkerDied(wk)
    \/ WorkerMade(TRUE)

SpecRtc == Init /\ [][NextRtc]_vars

\* Errors: one channel with a router and two sessions that connect without
\* failure and send INIT_PRODUCER again and again; produce() rejects as often
\* as it likes, the creation of a consumer within the failure budget.
NextErr ==
    \/ Len(channels) = 0 /\ tasks = EmptyBag /\ CreateChannel(1, TRUE)
    \/ \E t \in Tasks : WorkerObtained(t, TRUE)
    \/ \E t \in Tasks : RouterCreated(t, TRUE)
    \/ \E c \in DOMAIN channels, sid \in UsableIds :
          /\ Len(sessions) < MaxErrSessions
          /\ sid \notin KnownIds
          /\ GatewayConnect(c, sid)
    \/ \E s \in Sess : TransportsCreated(s, TRUE)
    \/ \E s \in Sess : InitTransportsAnswered(s, TRUE)
    \/ \E s \in Sess : BitrateSet(s, TRUE)
    \/ \E s \in Sess, ty \in Types : Produced < MaxProducers /\ InitProducer(s, ty)
    \/ \E t \in Tasks : ProduceDone(t, TRUE)
    \/ \E t \in Tasks : ProduceRejected(t)
    \/ \E t \in Tasks, ok \in BOOLEAN : ConsumeCreated(t, ok)
    \/ \E t \in Tasks : ConsumeInitResponse(t, TRUE)
    \/ \E t \in Tasks : ConsumeSynced(t, TRUE)
    \/ \E s \in Sess, sid \in SessionIds : RecoveryFire(s, sid)

SpecErr == Init /\ [][NextErr]_vars
\* ------------------------------------------------- verify: temporal claims
IatLeeway == 60

\* What `if (x)` tests: undefined and 0 are falsy, every other number is not.
Truthy(x) == x.has /\ x.v # 0

\* The values of `now` and the NumericDates signed into a token: around `now`
\* and around `now` + 60.
Nows == 1..MaxNow
NumericDates ==
    {Absent} \cup {Num(n) : n \in (-1..MaxNow + 1)
                               \cup (IatLeeway + 1..IatLeeway + MaxNow + 1)}

\* verify, after the signature was found correct (auth.ts:203-214): "ok" for
\* `return claims`, or the message of the AuthenticationError thrown.
VerifyTimes(claims, now) ==
    IF Truthy(claims.exp) /\ claims.exp.v < now THEN "Token expired"
    ELSE IF Truthy(claims.nbf) /\ claims.nbf.v > now THEN "Token not valid yet"
    ELSE IF Truthy(claims.iat) /\ claims.iat.v > now + IatLeeway
    THEN "Token issued in the future"
    ELSE "ok"

\* A correctly signed token with any claims is about to be verified.
InitClock ==
    /\ InitHeap
    /\ clock \in [claims : [exp : NumericDates, nbf : NumericDates,
                            iat : NumericDates],
                  now : {0}, out : {"idle"}]

\* verify(jsonWebToken, key) reads the clock and checks the claims.
VerifyCall(now) ==
    /\ clock.out = "idle"
    /\ clock' = [clock EXCEPT !.now = now, !.out = VerifyTimes(clock.claims, now)]
    /\ UNCHANGED <<channels, records, recordsByIssuer, sessions, producers,
                   consumers, slots, tasks, failures, bus, links, rtc>>

NextClock == \E now \in Nows : VerifyCall(now)

SpecClock == InitClock /\ [][NextClock]_vars

\* ------------------------------------------------- producers that are replaced
\* One channel with a router whose sessions send INIT_PRODUCER more than once,
\* also while an earlier request awaits the engine.
NextProd ==
    \/ Len(channels) = 0 /\ tasks = EmptyBag /\ CreateChannel(1, TRUE)
    \/ \E t \in Tasks : WorkerObtained(t, TRUE)
    \/ \E t \in Tasks : RouterCreated(t, TRUE)
    \/ \E c \in DOMAIN channels, sid \in UsableIds :
          /\ Len(sessions) < MaxProdSessions
          /\ sid \notin KnownIds
          /\ GatewayConnect(c, sid)
    \/ \E s \in Sess : TransportsCreated(s, TRUE)
    \/ \E s \in Sess : InitTransportsAnswered(s, TRUE)
    \/ \E s \in Sess : BitrateSet(s, TRUE)
    \/ \E s \in Sess, ty \in Types : Produced < MaxProduced /\ InitProducer(s, ty)
    \/ \E t \in Tasks : ProduceDone(t, TRUE)
    \/ \E t \in Tasks : ConsumeCreated(t, TRUE)
    \/ \E t \in Tasks : ConsumeInitResponse(t, TRUE)
    \/ \E t \in Tasks : ConsumeSynced(t, TRUE)

SpecProd == Init /\ [][NextProd]_vars

\* --------------------------------------------------- the gateway's link sets
\* First frames: text that is not JSON, or valid credentials for channel 1.
LinkFrames ==
    {[json |-> "invalid", channelUUID |-> 0, jwt |-> NoClaims]}
      \cup {[json |-> "object", channelUUID |-> 1,
             jwt |-> [GoodToken EXCEPT !.session_id = i]] : i \in UsableIds}

\* One channel; links that open, authenticate or are refused, stay silent
\* until the deadline, are dropped by the client, and close.
NextLinks ==
    \/ Len(channels) = 0 /\ CreateChannel(1, FALSE)
    \/ LinkOpened
    \/ \E l \in DOMAIN links, f \in LinkFrames : FirstMessage(l, f)
    \/ \E l \in DOMAIN links : AuthTimeout(l)
    \/ \E l \in DOMAIN links : LinkDropped(l)
    \/ \E l \in DOMAIN links : LinkGone(l)
    \/ \E s \in Sess : LinkClosed(s)

SpecLinks == Init /\ [][NextLinks]_vars

\* ------------------------------------------------------------------ claims
\* The sessions whose close event carried `code`.
ClosedWith(code) == {s \in Sess : sessions[s].closeLog # <<>> /\ sessions[s].closeLog[1] = code}

\* C1: in every reachable state every registered channel holds at most
\* CHANNEL_SIZE sessions, whatever joins (with new or present ids), session
\* closes, forced disconnects and channel closes came before.
C1_ChannelSize == \A c \in records : SizeOf(World, c) <= CHANNEL_SIZE

\* A channel is filled to capacity after a session of it was replaced.
C1_Witness ==
    \E c \in records :
        /\ SizeOf(World, c) = CHANNEL_SIZE
        /\ \E s \in ClosedWith(REPLACED) : sessions[s].chan = c

\* C10: Channel.create hands out one channel per (remoteAddress, issuer) for as
\* long as that channel is open, overlapping calls included: no two registered
\* channels belong to the same issuer, and the issuer index names the
\* registered channel of each issuer.
C10_OneChannelPerIssuer ==
    \A c \in records :
        /\ recordsByIssuer[channels[c].issuer] = c
        /\ \A d \in records : channels[d].issuer = channels[c].issuer => d = c

\* Two creations of one issuer overlapped and both completed.
C10_Witness ==
    \E c, d \in records : c # d /\ channels[c].issuer = channels[d].issuer
Codes == {CLEAN, REPLACED, WS_ERROR, WS_CLOSED, CHANNEL_CLOSED, C_TIMEOUT, P_TIMEOUT,
          KICKED, ERROR}

\* One step of the session state machine.
LegalStep(a, b) ==
    \/ a = S_NEW /\ b = S_CONNECTING
    \/ a = S_CONNECTING /\ b = S_CONNECTED
    \/ a # S_CLOSED /\ b = S_CLOSED

\* C2: the states a session is assigned, in order, start from NEW and follow
\* NEW -> CONNECTING -> CONNECTED or lead from any of these to CLOSED; nothing
\* is assigned after CLOSED, whichever step of connect(), timer or handler
\* runs later.
C2_StateMachine ==
    \A s \in Sess :
        \A i \in 1..Len(sessions[s].log) :
            LegalStep(IF i = 1 THEN S_NEW ELSE sessions[s].log[i - 1], sessions[s].log[i])

\* connect() resumed after a concurrent close and returned; the session stayed
\* CLOSED.
C2_Witness ==
    \E s \in Sess :
        /\ sessions[s].pc = "done"
        /\ sessions[s].log = <<S_CONNECTING, S_CLOSED>>
        /\ sessions[s].caps

\* The session was closed from outside while connect() was in progress.
ClosedDuringConnect(s) ==
    /\ sessions[s].log = <<S_CONNECTING, S_CLOSED>>
    /\ sessions[s].closeLog[1] \in {WS_CLOSED, WS_ERROR, KICKED, REPLACED, CHANNEL_CLOSED,
                                    C_TIMEOUT}

\* C5: a session closed while its connect() was in progress has, once
\* connect() has returned or failed, both of its created transports closed.
C5_TransportsReleased ==
    \A s \in Sess :
        (ClosedDuringConnect(s) /\ sessions[s].pc \in {"done", "failed"})
            => sessions[s].transports \in {"none", "closed"}

\* A session closed during connect() whose transports were created and released.
C5_Witness ==
    \E s \in Sess :
        /\ ClosedDuringConnect(s)
        /\ sessions[s].pc \in {"done", "failed"}
        /\ sessions[s].transports = "closed"

\* What C8 speaks of: the close events emitted by s, the SESSION_LEAVE
\* broadcasts, the states assigned, and every channel's sessions map.
CloseView(w, s) ==
    <<w.sessions[s].closeLog, w.sessions[s].leaveTo, w.sessions[s].log,
      [c \in DOMAIN w.channels |-> w.channels[c].sessions]>>

\* C8: Session.close is idempotent.  The close event was emitted at most once
\* (exactly once when the session is CLOSED) and SESSION_LEAVE was broadcast at
\* most once; closing a session that is not CLOSED with any code emits the
\* event with that code, and a further close with any code changes neither
\* the events emitted, nor the broadcasts, nor the state, nor any channel's
\* sessions map.
C8_CloseIdempotent ==
    \A s \in Sess :
        /\ Len(sessions[s].leaveTo) <= 1
        /\ IF StateOf(World, s) = S_CLOSED
           THEN /\ Len(sessions[s].closeLog) = 1
                /\ \A c2 \in Codes :
                      CloseView(SessionClose(World, s, c2), s) = CloseView(World, s)
           ELSE /\ sessions[s].closeLog = <<>>
                /\ \A c1 \in Codes :
                      LET w1 == SessionClose(World, s, c1)
                      IN /\ w1.sessions[s].closeLog = <<c1>>
                         /\ Len(w1.sessions[s].leaveTo) <= 1
                         /\ \A c2 \in Codes :
                               CloseView(SessionClose(w1, s, c2), s) = CloseView(w1, s)

\* A session closed by a forced disconnect was closed again by its link's
\* close event, and one that failed to connect by the gateway.
C8_Witness ==
    /\ \E s \in Sess : sessions[s].closeLog = <<KICKED>> /\ sessions[s].link = "closed"
    /\ \E s \in Sess : sessions[s].closeLog = <<ERROR>> /\ sessions[s].pc = "failed"

\* What a join with a present id has to do, for channel c and id sid.
Replaces(c, sid) ==
    LET old == channels[c].sessions[sid]
        w1 == Gateway(World, c, sid)
        new == w1.channels[c].sessions[sid]
    IN /\ new \notin Sess
       /\ new \in DOMAIN w1.sessions
       /\ w1.sessions[old].closeLog = <<REPLACED>>
       /\ \A x \in DOMAIN w1.sessions :
             (x # new /\ w1.sessions[x].chan = c /\ w1.sessions[x].sid = sid)
                => StateOf(w1, x) = S_CLOSED
       /\ SizeOf(w1, c) = SizeOf(World, c)
       /\ StateOf(w1, new) = (IF channels[c].router THEN S_CONNECTING ELSE S_CONNECTED)

\* C9 as stated: in every state of a channel in which the id is present, a
\* join with that id closes the prior session with REPLACED, installs the new
\* one as the only session under the id, keeps the number of sessions, and the
\* new session is on its way to CONNECTED.
C9_ReplaceAlways ==
    \A c \in records : \A sid \in SessionIds :
        channels[c].sessions[sid] # 0 => Replaces(c, sid)

\* C9 amended: the same, in every state in which the id is present and the
\* channel holds fewer than CHANNEL_SIZE sessions.
C9_ReplaceBelowCapacity ==
    \A c \in records : \A sid \in SessionIds :
        (channels[c].sessions[sid] # 0 /\ SizeOf(World, c) < CHANNEL_SIZE) => Replaces(c, sid)

\* A session was replaced in a channel with a router and its successor is
\* CONNECTED.
C9_Witness ==
    \E s \in ClosedWith(REPLACED) :
        LET new == channels[sessions[s].chan].sessions[sessions[s].sid]
        IN /\ channels[sessions[s].chan].router
           /\ new # 0
           /\ StateOf(World, new) = S_CONNECTED
\* Nothing is in flight and no timer of the orchestration is armed: without a
\* further client frame or link event no handler runs again.
Quiescent ==
    /\ tasks = EmptyBag
    /\ \A s \in Sess : /\ sessions[s].pc \in {"done", "failed"}
                       /\ \A i \in SessionIds : sessions[s].recover[i] = 0

\* The consumer that session a holds for type t of session b, 0 if none.
SlotOf(a, b, t) ==
    IF sessions[a].consumers[sessions[b].sid] = 0 THEN 0
    ELSE slots[sessions[a].consumers[sessions[b].sid]].slot[t]

\* C3: for CONNECTED sessions a # b of one channel, where b holds a producer
\* of type t that a can consume, a ends up with a consumer in slot (b, t)
\* whose paused flag equals the producer's.  "Ends up" is read at the states
\* in which the orchestration has come to rest, and consumers that the client
\* paused or resumed itself by CONSUMPTION_CHANGE are left out, so that what
\* remains is the server's own reconciliation.
C3_MeshConverges ==
    Quiescent =>
        \A a \in Sess, b \in Sess, t \in Types :
            LET p == sessions[b].producers[t]
                c == SlotOf(a, b, t)
            IN (/\ a # b
                /\ sessions[a].chan = sessions[b].chan
                /\ StateOf(World, a) = S_CONNECTED
                /\ StateOf(World, b) = S_CONNECTED
                /\ p # 0
                /\ CanConsume(World, a, p))
               => /\ c # 0
                  /\ consumers[c].client \/ consumers[c].paused = producers[p].paused

\* The mesh is complete and consistent at rest, after a pause was propagated.
C3_Witness ==
    /\ Quiescent
    /\ \E a \in Sess, b \in Sess, t \in Types :
          /\ a # b
          /\ StateOf(World, a) = S_CONNECTED
          /\ StateOf(World, b) = S_CONNECTED
          /\ sessions[b].producers[t] # 0
          /\ SlotOf(a, b, t) # 0
          /\ ~consumers[SlotOf(a, b, t)].closed
          /\ consumers[SlotOf(a, b, t)].paused
          /\ producers[sessions[b].producers[t]].paused

\* Session a has a consume(s) call in flight.
Consuming(a, s) ==
    \E t \in Tasks : t.kind \in {"consume", "initConsumer", "sync"} /\ t.self = a /\ t.peer = s

\* The consumers that sit in a slot of some `Consumers` object.
Slotted == {slots[k].slot[t] : k \in DOMAIN slots, t \in Types} \ {0}

\* C4: a CLOSED session s is in no channel's sessions map, and no other
\* session holds an open consumer of one of s's producers in a consumer slot,
\* once its consume(s) calls that were in flight when s closed have finished.
C4_ClosedSessionGone ==
    \A s \in Sess :
        StateOf(World, s) = S_CLOSED =>
            /\ \A c \in DOMAIN channels : s \notin SessionsIn(World, c)
            /\ \A k \in Slotted :
                  (consumers[k].peer = s /\ consumers[k].owner # s
                     /\ ~Consuming(consumers[k].owner, s))
                  => consumers[k].closed

\* A session with a producer closed, and the consumer that its peer held for
\* it was closed.
C4_Witness ==
    \E s \in Sess, k \in DOMAIN consumers :
        /\ StateOf(World, s) = S_CLOSED
        /\ consumers[k].peer = s
        /\ StateOf(World, consumers[k].owner) = S_CONNECTED
        /\ consumers[k].closed
        /\ \A t \in Types : SlotOf(consumers[k].owner, s, t) = 0

\* C6: a CLOSED session none of whose operations is still in flight holds no
\* open producer in a producer slot and no open consumer in a consumer slot.
C6_ClosedHoldsNothing ==
    \A s \in Sess :
        (/\ StateOf(World, s) = S_CLOSED
         /\ \A t \in Tasks : t.self # s
         /\ \A i \in SessionIds : sessions[s].recover[i] = 0)
        => /\ \A t \in Types :
                 sessions[s].producers[t] # 0 => producers[sessions[s].producers[t]].closed
           /\ \A k \in DOMAIN slots, t \in Types :
                 (slots[k].owner = s /\ slots[k].slot[t] # 0)
                    => consumers[slots[k].slot[t]].closed

\* A session that held a producer which its peer consumed closed, and its
\* producer was released.
C6_Witness ==
    \E s \in Sess :
        /\ StateOf(World, s) = S_CLOSED
        /\ \A t \in Tasks : t.self # s
        /\ \E p \in DOMAIN producers : producers[p].owner = s /\ producers[p].closed
        /\ \E k \in DOMAIN consumers : consumers[k].peer = s /\ consumers[k].closed
        /\ \A t \in Types : sessions[s].producers[t] = 0

\* C7: between two CONNECTED sessions, every consumer that consume() created
\* and whose creation has finished is the one in slot (peer, type) or is
\* closed: none is left open without a slot, whichever of the concurrent
\* consume() calls failed at its INIT_CONSUMER request or pause/resume.
C7_NoLeakedConsumer ==
    \A k \in DOMAIN consumers :
        (/\ ~consumers[k].closed
         /\ StateOf(World, consumers[k].owner) = S_CONNECTED
         /\ StateOf(World, consumers[k].peer) = S_CONNECTED
         /\ \A t \in Tasks : ~(t.kind = "initConsumer" /\ t.cur = k))
        => SlotOf(consumers[k].owner, consumers[k].peer, consumers[k].type) = k

\* Two consume() calls raced for one slot: the winner is in the slot and the
\* loser's consumer is closed.
C7_Witness ==
    \E k \in DOMAIN consumers, l \in DOMAIN consumers :
        /\ k # l
        /\ consumers[k].owner = consumers[l].owner
        /\ consumers[k].peer = consumers[l].peer
        /\ consumers[k].type = consumers[l].type
        /\ StateOf(World, consumers[k].owner) = S_CONNECTED
        /\ StateOf(World, consumers[k].peer) = S_CONNECTED
        /\ consumers[k].closed
        /\ ~consumers[l].closed
        /\ SlotOf(consumers[l].owner, consumers[l].peer, consumers[l].type) = l
        /\ failures = 0

\* What Channel.close leaves behind for channel c in the heap w.
ChannelGone(w, c) ==
    /\ SessionsIn(w, c) = {}
    /\ ~w.channels[c].closeTimeout
    /\ c \notin w.records
    /\ \A i \in Issuers : w.recordsByIssuer[i] # c

\* C11: Channel.close, from any reachable state and whatever triggers it (the
\* soft reset, the idle timer, the worker's death), closes every session of
\* the channel's map with CHANNEL_CLOSED as its one close event and without a
\* SESSION_LEAVE broadcast, empties the map, disarms the idle timer and removes
\* the channel from both registries; and a closed channel stays that way: its
\* sessions are all CLOSED, those it closed never broadcast.
C11_ChannelClosed ==
    /\ \A c \in DOMAIN channels :
          channels[c].closed =>
              /\ ChannelGone(World, c)
              /\ \A s \in Sess : sessions[s].chan = c => StateOf(World, s) = S_CLOSED
    /\ \A s \in ClosedWith(CHANNEL_CLOSED) :
          /\ channels[sessions[s].chan].closed
          /\ sessions[s].closeLog = <<CHANNEL_CLOSED>>
          /\ sessions[s].leaveTo = <<>>
    /\ \A c \in records :
          LET w == ChannelClose(World, c)
          IN /\ ChannelGone(w, c)
             /\ \A s \in SessionsIn(World, c) :
                   /\ StateOf(w, s) = S_CLOSED
                   /\ w.sessions[s].closeLog = <<CHANNEL_CLOSED>>
                   /\ w.sessions[s].leaveTo = <<>>

\* A channel with a router was closed while it held two sessions.
C11_Witness ==
    \E c \in DOMAIN channels :
        /\ channels[c].closed
        /\ channels[c].router
        /\ Cardinality({s \in ClosedWith(CHANNEL_CLOSED) : sessions[s].chan = c}) = 2

\* The positions of the log where request `id` was completed.
Settles(id) ==
    {k \in 1..Len(bus.log) : bus.log[k].e \in {"resolve", "reject"} /\ bus.log[k].id = id}

\* The event of the log is the event `e` of request `id` with value `v`.
IsEv(ev, e, id, v) == ev.e = e /\ ev.id = id /\ ev.v = v

\* The positions of the log after request `id` was made where something
\* happened that completes it: a response payload with its id, its deadline,
\* a close of the bus.
Causes(id) ==
    LET r == CHOOSE k \in 1..Len(bus.log) : IsEv(bus.log[k], "request", id, 0)
    IN {k \in (r + 1)..Len(bus.log) :
           \/ bus.log[k].e = "close"
           \/ bus.log[k].e \in {"response", "deadline"} /\ bus.log[k].id = id}

\* C12: every request is completed at most once, and exactly by the first of:
\* a response payload with its id (it resolves with that payload's message),
\* its deadline, a close of the bus (it rejects); until then it is pending, and
\* whatever arrives afterwards (a late or duplicate response) or for an id that
\* is not pending completes nothing.
C12_RequestOnce ==
    /\ \A k \in 1..Len(bus.log) :
          bus.log[k].e \in {"resolve", "reject"} => bus.log[k].id \in 1..bus.requestCount
    /\ \A id \in 1..bus.requestCount :
          IF Causes(id) = {}
          THEN Settles(id) = {} /\ id \in bus.pendingRequests
          ELSE LET k == CHOOSE x \in Causes(id) : \A y \in Causes(id) : x <= y
                   c == bus.log[k]
               IN /\ id \notin bus.pendingRequests
                  /\ \E j \in (k + 1)..Len(bus.log) :
                        /\ Settles(id) = {j}
                        /\ \A i \in (k + 1)..(j - 1) : bus.log[i].e = "reject"
                        /\ c.e = "response" => j = k + 1 /\ IsEv(bus.log[j], "resolve", id, c.v)
                        /\ c.e = "deadline" => j = k + 1 /\ IsEv(bus.log[j], "reject", id, "timed out")
                        /\ c.e = "close" => IsEv(bus.log[j], "reject", id, "bus closed")

\* A request was resolved, and a second response with another message came
\* for it afterwards.
C12_Witness ==
    \E k \in 1..Len(bus.log), j \in 1..Len(bus.log) :
        /\ k < j
        /\ bus.log[k].e = "resolve"
        /\ bus.log[j].e = "response"
        /\ bus.log[j].id = bus.log[k].id
        /\ bus.log[j].v # bus.log[k].v

RECURSIVE Written(_)
\* The messages of the payloads of the frames written to the link, in order.
Written(log) ==
    IF log = <<>> THEN <<>>
    ELSE LET rest == Written(SubSeq(log, 1, Len(log) - 1))
             last == log[Len(log)]
         IN IF last.e = "write"
            THEN rest \o [i \in 1..Len(last.v) |-> last.v[i].message]
            ELSE rest

Ascending(ms) == \A i, j \in 1..Len(ms) : i < j => ms[i].n < ms[j].n

IsBatched(m) == m.batch
IsDirect(m) == ~m.batch

\* Until the bus is closed nothing is lost: every payload handed to the bus
\* was written or is queued, and a queue that is not empty has a timer that
\* will flush it.
NothingLost(ms) ==
    ~bus.muted =>
        /\ {ms[i].n : i \in 1..Len(ms)}
              \cup {bus.messageQueue[i].message.n : i \in 1..Len(bus.messageQueue)}
              = 1..bus.calls
        /\ bus.messageQueue # <<>> => bus.timers # {}

\* C13 as stated: the payloads reach the link in the order in which they were
\* handed to the bus, whatever the mix of batched and non-batched ones, each
\* once and none lost until the bus is closed.
C13_Fifo ==
    LET ms == Written(bus.log)
    IN Ascending(ms) /\ NothingLost(ms)

\* C13, amended: the batched payloads reach the link in the order in which they
\* were handed to the bus, and so do the non-batched ones; no payload is
\* written twice and none is lost until the bus is closed.
C13_FifoPerKind ==
    LET ms == Written(bus.log)
    IN /\ Ascending(SelectSeq(ms, IsBatched))
       /\ Ascending(SelectSeq(ms, IsDirect))
       /\ \A i, j \in 1..Len(ms) : i # j => ms[i].n # ms[j].n
       /\ NothingLost(ms)

\* A frame of several batched payloads and a non-batched payload were written.
C13_Witness ==
    /\ \E k \in 1..Len(bus.log) : bus.log[k].e = "write" /\ Len(bus.log[k].v) >= 2
    /\ \E i \in 1..Len(Written(bus.log)) : ~Written(bus.log)[i].batch

\* C14: while the bus is open, a batched send made while no batch timer is
\* armed is written at once, in one frame with the queue, and arms a timer; a
\* batched send made while a batch timer is armed is queued and nothing is
\* written; a timer that fires on a queue that is not empty writes the queue
\* in one frame and leaves a timer armed.
C14_TrailingEdge ==
    ~bus.muted =>
        LET b == Bus_send(bus, TRUE)
            p == Payload(bus, 0, 0, TRUE)
        IN /\ bus.timers = {} =>
                /\ b.log = Append(bus.log, Ev("write", 0, Append(bus.messageQueue, p)))
                /\ b.messageQueue = <<>>
                /\ b.timers # {}
           /\ bus.timers # {} =>
                /\ b.log = bus.log
                /\ b.messageQueue = Append(bus.messageQueue, p)
           /\ \A k \in bus.timers :
                bus.messageQueue # <<>> =>
                    /\ Bus_timerFired(bus, k).log
                          = Append(bus.log, Ev("write", 0, bus.messageQueue))
                    /\ Bus_timerFired(bus, k).timers # {}

\* Batched payloads wait in the queue of an open bus for the timer whose
\* handle the bus holds, after an earlier frame was written.
C14_Witness ==
    /\ ~bus.muted
    /\ bus.batchTimeout \in bus.timers
    /\ Len(bus.messageQueue) >= 2
    /\ \E k \in 1..Len(bus.log) : bus.log[k].e = "write"

\* C15: close() rejects every pending request and empties the pending map;
\* once the bus is closed none of its batch timers is armed, and after the
\* first close() the bus writes no frame and invokes neither onMessage nor
\* onRequest.
C15_ClosedBusSilent ==
    /\ LET b == Bus_close(bus)
       IN /\ b.pendingRequests = {}
          /\ \A id \in bus.pendingRequests :
                \E k \in (Len(bus.log) + 1)..Len(b.log) :
                    IsEv(b.log[k], "reject", id, "bus closed")
    /\ bus.muted => bus.timers = {}
    /\ \A k \in 1..Len(bus.log) :
          bus.log[k].e = "close" =>
              \A j \in (k + 1)..Len(bus.log) :
                  bus.log[j].e \notin {"write", "onMessage", "onRequest"}

\* A bus was closed while a request was pending and batched payloads waited
\* for the timer: the request was rejected and no timer is left.
C15_Witness ==
    /\ bus.muted
    /\ bus.timers = {}
    /\ bus.messageQueue # <<>>
    /\ \E k \in 1..Len(bus.log) : IsEv(bus.log[k], "reject", 1, "bus closed")

\* The channel a first frame names: by its channelUUID, else by the claim of
\* its token.
Named(frame) ==
    IF frame.channelUUID # 0 THEN frame.channelUUID ELSE frame.jwt.sfu_channel_uuid

\* The frame carries a token that is malformed, not signed with the key of the
\* channel it names (the global key when that channel has none), expired or
\* without session id, or it names no existing channel.
BadCredentials(frame) ==
    /\ frame.json # "invalid"
    /\ \/ frame.jwt.format # "ok"
       \/ frame.jwt.alg # "HS256"
       \/ frame.jwt.expired
       \/ frame.jwt.session_id = 0
       \/ Named(frame) \notin records
       \/ frame.jwt.key # channels[Named(frame)].key

\* The links that wait for their first frame.
Waiting == {l \in DOMAIN links : links[l].once /\ links[l].state = "open"}

\* C16: in every reachable state, a first frame with bad credentials on any
\* waiting link gets the link closed with AUTHENTICATION_FAILED (4106), creates
\* no session and leaves every channel as it was.
C16_BadTokenRefused ==
    \A l \in Waiting, f \in Frames :
        BadCredentials(f) =>
            LET r == OnFirstMessage(World, links, l, f)
            IN /\ r.links[l].state = "closing"
               /\ r.links[l].code = 4106
               /\ r.links[l].session = 0
               /\ r.w.sessions = sessions
               /\ r.w.channels = channels

\* A link was refused with AUTHENTICATION_FAILED while a channel held a session.
C16_Witness ==
    /\ \E l \in DOMAIN links : links[l].code = 4106 /\ links[l].session = 0
    /\ \E c \in records : SizeOf(World, c) >= 1

\* C17: a link that is open and has not sent its first frame has its
\* authentication deadline armed, and the deadline closes it with TIMEOUT
\* (4107); the first frame, whatever it carries, disarms the deadline, so a
\* link whose first frame arrived is never closed by it: only links without a
\* first frame carry the code 4107.
C17_AuthDeadline ==
    /\ \A l \in Waiting :
          /\ links[l].timeout
          /\ OnAuthTimeout(links, l)[l].state = "closing"
          /\ OnAuthTimeout(links, l)[l].code = 4107
          /\ \A f \in Frames : ~OnFirstMessage(World, links, l, f).links[l].timeout
    /\ \A l \in DOMAIN links :
          /\ ~links[l].once => ~links[l].timeout
          /\ links[l].code = 4107 => links[l].once

\* One link was closed by the deadline, another sent its frame and got a
\* session, and a third sent a frame that was refused.
C17_Witness ==
    \E l, m, n \in DOMAIN links :
        /\ links[l].code = 4107
        /\ links[m].session # 0
        /\ ~links[n].once /\ links[n].state = "closing"

\* The token verifies under key k.
VerifiesUnder(token, k) ==
    token.format = "ok" /\ token.alg = "HS256" /\ token.key = k /\ ~token.expired

\* C18: for every channel c that has a key of its own and every first frame on
\* a waiting link: a session is added to c only if the token verifies under
\* c's key; a token signed with the global key or any other key leaves c's
\* sessions as they were; and a token that verifies under c's key, sent with
\* c's uuid and a session id while c has room, is admitted under that id.
C18_ChannelKey ==
    \A c \in records :
        channels[c].key # 0 =>
            \A l \in Waiting, f \in Frames :
                LET r == OnFirstMessage(World, links, l, f)
                    joined == /\ r.links[l].session # 0
                              /\ r.w.sessions[r.links[l].session].chan = c
                IN /\ joined => VerifiesUnder(f.jwt, channels[c].key)
                   /\ f.jwt.key # channels[c].key =>
                         r.w.channels[c].sessions = channels[c].sessions
                   /\ ( /\ f.json = "object"
                        /\ f.channelUUID = c
                        /\ VerifiesUnder(f.jwt, channels[c].key)
                        /\ f.jwt.session_id # 0
                        /\ ~IsFull(World, c) )
                      => /\ joined
                         /\ r.w.channels[c].sessions[f.jwt.session_id] = r.links[l].session

\* A channel with a key holds a session, and a link that named this channel
\* by its uuid was refused.
C18_Witness ==
    \E c \in records :
        /\ channels[c].key # 0
        /\ SizeOf(World, c) >= 1
        /\ \E l \in DOMAIN links :
              links[l].named = c /\ ~links[l].legacy /\ links[l].code = 4106

\* C19: a first frame without channelUUID whose token names, by its
\* sfu_channel_uuid claim, a channel that has a key of its own is refused with
\* AUTHENTICATION_FAILED, whatever key signed the token; no session is created
\* and the channels are left as they were.
C19_LegacyRefused ==
    \A c \in records :
        channels[c].key # 0 =>
            \A l \in Waiting, f \in Frames :
                (f.json # "invalid" /\ f.channelUUID = 0 /\ f.jwt.sfu_channel_uuid = c) =>
                    LET r == OnFirstMessage(World, links, l, f)
                    IN /\ r.links[l].state = "closing"
                       /\ r.links[l].code = 4106
                       /\ r.links[l].session = 0
                       /\ r.w.sessions = sessions
                       /\ r.w.channels = channels

\* A link that named a channel with a key through its token's claim was
\* refused, while a channel without key admitted a session the same way.
C19_Witness ==
    /\ \E l \in DOMAIN links :
          /\ links[l].legacy
          /\ links[l].named \in DOMAIN channels
          /\ channels[links[l].named].key # 0
          /\ links[l].code = 4106
    /\ \E l \in DOMAIN links :
          /\ links[l].legacy
          /\ links[l].session # 0
          /\ channels[links[l].named].key = 0

\* C20: for every registered channel c and every first frame with valid
\* credentials for c: while c holds fewer than CHANNEL_SIZE sessions the join
\* succeeds, and with an id that is not in c the channel holds one session
\* more; when c holds CHANNEL_SIZE sessions the join is refused, sessions and
\* channels stay as they were and the link is closed with CHANNEL_FULL (4109).
C20_Capacity ==
    \A c \in records, l \in Waiting, f \in Frames :
        ( /\ f.json = "object"
          /\ f.channelUUID = c
          /\ VerifiesUnder(f.jwt, channels[c].key)
          /\ f.jwt.session_id # 0 )
        => LET r == OnFirstMessage(World, links, l, f)
           IN IF SizeOf(World, c) >= CHANNEL_SIZE
              THEN /\ r.links[l].state = "closing"
                   /\ r.links[l].code = 4109
                   /\ r.links[l].session = 0
                   /\ r.w.sessions = sessions
                   /\ r.w.channels = channels
              ELSE /\ r.links[l].state = "open"
                   /\ r.links[l].session = Len(sessions) + 1
                   /\ r.w.channels[c].sessions[f.jwt.session_id] = Len(sessions) + 1
                   /\ channels[c].sessions[f.jwt.session_id] = 0 =>
                         SizeOf(r.w, c) = SizeOf(World, c) + 1

\* A channel holds CHANNEL_SIZE sessions and a link that named it was closed
\* with CHANNEL_FULL.
C20_Witness ==
    \E c \in records, l \in DOMAIN links :
        /\ SizeOf(World, c) = CHANNEL_SIZE
        /\ links[l].named = c
        /\ links[l].code = 4109

\* C21: a session that closed with a code other than CHANNEL_CLOSED broadcast
\* SESSION_LEAVE once, to sessions of its own channel with another id, and one
\* that closed with CHANNEL_CLOSED or is not closed broadcast nothing; closing
\* a session that is not closed, with any code but CHANNEL_CLOSED, sends
\* SESSION_LEAVE to every other session of its channel, each of which has an
\* open link, with CHANNEL_CLOSED it sends nothing, and a further close with
\* any code sends nothing more.
C21_LeaveOnce ==
    \A s \in Sess :
        LET me == sessions[s]
            peers == SessionsIn(World, me.chan) \ {s}
        IN /\ Len(me.closeLog) <= 1
           /\ Len(me.leaveTo) =
                 IF me.closeLog # <<>> /\ me.closeLog[1] # CHANNEL_CLOSED THEN 1 ELSE 0
           /\ \A i \in 1..Len(me.leaveTo) :
                 \A x \in me.leaveTo[i] :
                     x # s /\ sessions[x].chan = me.chan /\ sessions[x].sid # me.sid
           /\ \A c1 \in Codes :
                 LET w1 == SessionClose(World, s, c1)
                 IN /\ w1.sessions[s].leaveTo =
                          IF StateOf(World, s) = S_CLOSED THEN me.leaveTo
                          ELSE IF c1 = CHANNEL_CLOSED THEN <<>>
                          ELSE <<peers>>
                    /\ \A c2 \in Codes :
                          SessionClose(w1, s, c2).sessions[s].leaveTo = w1.sessions[s].leaveTo
           /\ StateOf(World, s) # S_CLOSED =>
                 \A x \in peers : sessions[x].link = "open" /\ sessions[x].sid # me.sid

\* A session failed to connect and was closed twice for it, after it had told
\* its peer once that it left; another session left with its channel and told
\* nobody.
C21_Witness ==
    /\ \E s \in Sess :
          /\ sessions[s].pc = "failed"
          /\ Len(sessions[s].leaveTo) = 1
          /\ sessions[s].leaveTo[1] # {}
    /\ \E s \in Sess : sessions[s].closeLog = <<CHANNEL_CLOSED>>

\* The session object is in no channel's sessions map.
InNoChannel(w, s) == \A c \in DOMAIN w.channels : s \notin SessionsIn(w, c)

\* C22: a session whose link is closed is CLOSED, a CLOSED session is in no
\* channel's map and its link is closing or closed; the link's close event
\* and its error event each leave the session CLOSED, with the close code
\* WS_CLOSED or WS_ERROR when it was not closed before and with the code it
\* had otherwise, and in no channel's map; a close of the session with any
\* code leaves its link closing or closed.
C22_LinkBound ==
    \A s \in Sess :
        LET was == StateOf(World, s) = S_CLOSED
            onClose == SessionClose([World EXCEPT !.sessions[s].link = "closed"], s, WS_CLOSED)
            onError == SessionClose(World, s, WS_ERROR)
        IN /\ sessions[s].link = "closed" => was
           /\ was => sessions[s].link # "open" /\ InNoChannel(World, s)
           /\ sessions[s].link # "closed" =>
                 /\ StateOf(onClose, s) = S_CLOSED
                 /\ StateOf(onError, s) = S_CLOSED
                 /\ onClose.sessions[s].closeLog =
                       IF was THEN sessions[s].closeLog ELSE <<WS_CLOSED>>
                 /\ onError.sessions[s].closeLog =
                       IF was THEN sessions[s].closeLog ELSE <<WS_ERROR>>
                 /\ InNoChannel(onClose, s)
                 /\ InNoChannel(onError, s)
           /\ \A code \in Codes : SessionClose(World, s, code).sessions[s].link # "open"

\* One session was closed by its link's close event and one by its link's
\* error event, whose link is closing; both had joined a channel that is still
\* registered.
C22_Witness ==
    /\ \E s \in Sess :
          /\ sessions[s].closeLog = <<WS_CLOSED>>
          /\ sessions[s].link = "closed"
          /\ sessions[s].chan \in records
    /\ \E s \in Sess :
          /\ sessions[s].closeLog = <<WS_ERROR>>
          /\ sessions[s].link = "closing"
          /\ sessions[s].chan \in records

\* C23: closing a session that is not closed and whose link is open closes
\* the link with 1011 for ERROR, 4108 for KICKED, REPLACED and CHANNEL_CLOSED,
\* 4107 for C_TIMEOUT and P_TIMEOUT and 1000 for every other code; and every
\* link that the gateway closed for its session carries the code that this
\* table gives for the session's close code.
C23_CloseCodeMapping ==
    \A s \in Sess :
        /\ StateOf(World, s) # S_CLOSED /\ sessions[s].link = "open" =>
              \A code \in Codes :
                  LET after == SessionClose(World, s, code).sessions[s]
                  IN /\ after.link = "closing"
                     /\ code = ERROR => after.linkCode = 1011
                     /\ code \in {KICKED, REPLACED, CHANNEL_CLOSED} => after.linkCode = 4108
                     /\ code \in {C_TIMEOUT, P_TIMEOUT} => after.linkCode = 4107
                     /\ code \in {CLEAN, WS_ERROR, WS_CLOSED} => after.linkCode = 1000
        /\ sessions[s].linkCode # 0 =>
              /\ Len(sessions[s].closeLog) = 1
              /\ <<sessions[s].closeLog[1], sessions[s].linkCode>> \in
                    {<<ERROR, 1011>>, <<KICKED, 4108>>, <<REPLACED, 4108>>,
                     <<CHANNEL_CLOSED, 4108>>, <<C_TIMEOUT, 4107>>, <<P_TIMEOUT, 4107>>,
                     <<CLEAN, 1000>>, <<WS_ERROR, 1000>>, <<WS_CLOSED, 1000>>}
        /\ sessions[s].linkCode = 0 =>
              sessions[s].closeLog \in {<<>>, <<WS_CLOSED>>}

\* A replaced session's link was closed as KICKED and the link of the session
\* that replaced it, which missed its connection deadline, as TIMEOUT.
C23_Witness ==
    \E a, b \in Sess :
        /\ sessions[a].closeLog = <<REPLACED>> /\ sessions[a].linkCode = 4108
        /\ sessions[b].closeLog = <<C_TIMEOUT>> /\ sessions[b].linkCode = 4107
        /\ sessions[a].sid = sessions[b].sid

\* What a session's life consists of: the states it was assigned, its close
\* events, its broadcasts, its link, and the channel's map entry it has.
LifeView(w, s) ==
    <<w.sessions[s].log, w.sessions[s].closeLog, w.sessions[s].leaveTo,
      w.sessions[s].link, w.sessions[s].linkCode,
      s \in SessionsIn(w, w.sessions[s].chan)>>

\* The sessions that a request from addr lists: those that a registered
\* channel created from addr holds under a listed id.
ListedOwn(addr, req) ==
    {s \in Sess :
        \E k \in DOMAIN req.list :
            LET c == req.list[k].uuid
            IN /\ c \in records
               /\ AddressOf(channels[c].issuer) = addr
               /\ \E n \in DOMAIN req.list[k].ids :
                     channels[c].sessions[req.list[k].ids[n]] = s}

\* C24: a /disconnect request with a token signed with the global key and the
\* claim sessionIdsByChannel is answered with 200; every session that a
\* registered channel of the requester's address holds under a listed id is
\* then CLOSED with one close event, KICKED, and in no channel's map; every
\* other session has the states, close events, broadcasts, link and map entry
\* it had, a session of a channel that holds no such session is unchanged in
\* every field and so is that channel, and no channel is registered or
\* unregistered.
C24_DisconnectOwn ==
    \A addr \in Addresses, req \in SampleRequests :
        req.body = "string" /\ Verify(req.jwt, 0) = "ok" /\ req.hasList =>
            LET r == HttpDisconnect(World, addr, req)
                hit == ListedOwn(addr, req)
                touched == {sessions[s].chan : s \in hit}
            IN /\ r.status = 200
               /\ DOMAIN r.w.sessions = Sess
               /\ r.w.records = records
               /\ r.w.recordsByIssuer = recordsByIssuer
               /\ \A s \in hit :
                     /\ StateOf(World, s) # S_CLOSED
                     /\ StateOf(r.w, s) = S_CLOSED
                     /\ r.w.sessions[s].closeLog = <<KICKED>>
                     /\ InNoChannel(r.w, s)
               /\ \A s \in Sess \ hit :
                     /\ LifeView(r.w, s) = LifeView(World, s)
                     /\ sessions[s].chan \notin touched => r.w.sessions[s] = sessions[s]
               /\ \A c \in DOMAIN channels \ touched : r.w.channels[c] = channels[c]

\* A session was kicked by its channel's owner while another session of that
\* channel and a session of a channel created from another address, which had
\* the same request's id, stayed open.
C24_Witness ==
    \E a, b, c \in Sess :
        /\ sessions[a].closeLog = <<KICKED>>
        /\ sessions[b].chan = sessions[a].chan
        /\ sessions[c].chan # sessions[a].chan
        /\ sessions[c].sid = sessions[a].sid
        /\ StateOf(World, b) # S_CLOSED
        /\ StateOf(World, c) # S_CLOSED
        /\ channels[sessions[c].chan].issuer # channels[sessions[a].chan].issuer

\* The states a session was assigned.
Reached(s) == {sessions[s].log[i] : i \in 1..Len(sessions[s].log)}

\* C25: a session whose connection deadline has passed without it having
\* reached CONNECTED emitted its close event with C_TIMEOUT, and a session
\* that reached CONNECTED did not.
C25_ConnectionDeadline ==
    \A s \in Sess :
        /\ sessions[s].age = SessionTicks /\ ~sessions[s].connTimer
              /\ S_CONNECTED \notin Reached(s)
              => sessions[s].closeLog = <<C_TIMEOUT>>
        /\ S_CONNECTED \in Reached(s) => sessions[s].closeLog # <<C_TIMEOUT>>

\* The connection deadline of a session has passed whose client never
\* answered INIT_TRANSPORTS, and one of a session that had connected.
C25_Witness ==
    /\ \E s \in Sess :
          /\ sessions[s].age = SessionTicks
          /\ ~sessions[s].connTimer
          /\ ~sessions[s].caps
          /\ sessions[s].transports # "none"
          /\ StateOf(World, s) = S_CLOSED
    /\ \E s \in Sess :
          /\ sessions[s].age = SessionTicks
          /\ ~sessions[s].connTimer
          /\ StateOf(World, s) = S_CONNECTED

\* C26: while a session is open its ping interval runs and a PING is issued
\* exactly when timeouts.ping has passed since the last one (or since
\* connect()); a PING that has been pending for timeouts.session closes the
\* session with P_TIMEOUT, and only such a PING does.
C26_Ping ==
    /\ [](\A s \in Sess :
            /\ StateOf(World, s) \in {S_CONNECTING, S_CONNECTED}
                  => /\ sessions[s].pingTimer
                     /\ sessions[s].pingIn \in 0..PingTicks
                     /\ sessions[s].pingAge \in -1..SessionTicks
            /\ sessions[s].pingAge >= SessionTicks /\ StateOf(World, s) # S_CLOSED
                  => OnPingRejected(World, s).sessions[s].closeLog = <<P_TIMEOUT>>)
    /\ [][\A s \in Sess :
            /\ sessions[s].pingAge = -1 /\ sessions'[s].pingAge = 0
                  => /\ sessions[s].pingIn = 0
                     /\ sessions'[s].pingIn = PingTicks
            /\ StateOf(World, s) # S_CLOSED /\ sessions[s].pingIn = 0
                  => \/ sessions'[s].pingAge = 0
                     \/ sessions'[s].pingIn = 0
                     \/ sessions'[s].log # sessions[s].log
            /\ sessions[s].closeLog = <<>> /\ sessions'[s].closeLog = <<P_TIMEOUT>>
                  => sessions[s].pingAge >= SessionTicks]_vars

\* One session was closed with P_TIMEOUT, timeouts.session after a PING it
\* did not answer, while another one is CONNECTED with no PING pending.
C26_Witness ==
    \E s, x \in Sess :
        /\ sessions[s].closeLog = <<P_TIMEOUT>>
        /\ StateOf(World, x) = S_CONNECTED
        /\ sessions[x].pingAge = -1
        /\ sessions[x].pingIn = PingTicks - SessionTicks
        /\ sessions[x].age = SessionTicks
        /\ ~sessions[x].connTimer

\* C27: a BROADCAST received from a session is sent, as BROADCAST{senderId,
\* message}, to exactly the other open sessions of the sender's channel, so
\* neither to the sender nor to a session of another channel; no client is
\* ever sent a broadcast of its own id; and in a channel without a router a
\* session has no transports and is CONNECTED as soon as connect() was called.
C27_Broadcast ==
    /\ \A s \in Sess, m \in Messages :
          sessions[s].log # <<>> /\ sessions[s].link = "open"
          => LET w2 == OnBroadcast(World, s, m)
                 msg == [senderId |-> sessions[s].sid, message |-> m]
             IN \A x \in Sess :
                   w2.sessions[x].heard =
                      IF /\ x # s
                         /\ sessions[x].chan = sessions[s].chan
                         /\ StateOf(World, x) # S_CLOSED
                      THEN Append(sessions[x].heard, msg)
                      ELSE sessions[x].heard
    /\ \A x \in Sess : \A i \in 1..Len(sessions[x].heard) :
          /\ sessions[x].heard[i].senderId # sessions[x].sid
          /\ \E s \in Sess : /\ sessions[s].chan = sessions[x].chan
                              /\ sessions[s].sid = sessions[x].heard[i].senderId
    /\ \A s \in Sess :
          ~channels[sessions[s].chan].router /\ sessions[s].log # <<>>
          => /\ sessions[s].transports = "none"
             /\ S_CONNECTED \in Reached(s)

\* In a channel without a router one client was sent the broadcast of another
\* one, which was sent nothing, and neither was a connected session of another
\* channel.
C27_Witness ==
    \E s, x, y \in Sess :
        /\ ~channels[sessions[s].chan].router
        /\ sessions[x].chan = sessions[s].chan
        /\ Len(sessions[x].heard) = 1
        /\ sessions[x].heard[1].senderId = sessions[s].sid
        /\ sessions[s].heard = <<>>
        /\ StateOf(World, s) = S_CONNECTED
        /\ sessions[y].chan # sessions[s].chan
        /\ StateOf(World, y) = S_CONNECTED
        /\ sessions[y].heard = <<>>

\* C28: the idle timer of a registered channel is armed exactly while the
\* channel holds at most one session; it runs for timeouts.channel from the
\* moment it was armed, without starting anew while the count stays at 0 or 1;
\* when it fires the channel closes and leaves the registry, and the session
\* it holds closes with CHANNEL_CLOSED; a channel is closed by the timer only
\* when it holds at most one session.
C28_IdleClose ==
    /\ [](\A c \in DOMAIN channels :
            /\ c \in records => (channels[c].closeTimeout <=> SizeOf(World, c) <= 1)
            /\ channels[c].closeTimeout
                  => c \in records /\ channels[c].idleIn \in 0..ChannelTicks
            /\ channels[c].closeTimeout /\ channels[c].idleIn = 0
                  => LET w2 == ChannelClose(World, c)
                     IN /\ w2.channels[c].closed
                        /\ c \notin w2.records
                        /\ w2.recordsByIssuer[channels[c].issuer] = 0
                        /\ \A s \in SessionsIn(World, c) :
                              w2.sessions[s].closeLog = <<CHANNEL_CLOSED>>)
    /\ [][\A c \in DOMAIN channels :
            /\ channels[c].closeTimeout /\ channels'[c].closeTimeout
                  => channels'[c].idleIn \in {channels[c].idleIn, channels[c].idleIn - 1}
            /\ ~channels[c].closeTimeout /\ channels'[c].closeTimeout
                  => channels'[c].idleIn = ChannelTicks
            /\ ~channels[c].closed /\ channels'[c].closed
                  => /\ channels[c].closeTimeout
                     /\ channels[c].idleIn = 0
                     /\ SizeOf(World, c) <= 1]_vars

\* The idle timer closed a channel together with its single session, while a
\* channel with two sessions stays open, its timer disarmed after it had run
\* for a while.
C28_Witness ==
    \E c, d \in DOMAIN channels :
        /\ channels[c].closed
        /\ \E s \in Sess :
              /\ sessions[s].chan = c
              /\ sessions[s].closeLog = <<CHANNEL_CLOSED>>
        /\ d \in records
        /\ SizeOf(World, d) = 2
        /\ ~channels[d].closeTimeout
        /\ channels[d].idleIn < ChannelTicks

\* C29: when a worker of the pool dies, every registered channel made on it
\* is closed, leaves both registries and its sessions close with
\* CHANNEL_CLOSED; every other channel (on another worker or without a
\* router), its registry entries and its sessions stay as they are; the pool
\* loses the dead worker and one call of makeWorker is started; a completed
\* makeWorker adds one new worker.
C29_WorkerDeath ==
    /\ [](\A wk \in rtc.workers :
            LET w2 == OnWorkerDied(World, wk)
            IN /\ w2.rtc.workers = rtc.workers \ {wk}
               /\ w2.rtc.making = rtc.making + 1
               /\ \A c \in DOMAIN channels :
                     IF channels[c].worker = wk /\ c \in records
                     THEN /\ w2.channels[c].closed
                          /\ c \notin w2.records
                          /\ w2.recordsByIssuer[channels[c].issuer] = 0
                          /\ \A s \in SessionsIn(World, c) :
                                w2.sessions[s].closeLog = <<CHANNEL_CLOSED>>
                     ELSE /\ w2.channels[c] = channels[c]
                          /\ c \in w2.records <=> c \in records
                          /\ recordsByIssuer[channels[c].issuer] = c
                                => w2.recordsByIssuer[channels[c].issuer] = c
                          /\ \A s \in Sess :
                                sessions[s].chan = c => w2.sessions[s] = sessions[s])
    /\ [][/\ rtc'.workers # rtc.workers
             => \/ \E wk \in rtc.workers :
                      /\ rtc'.workers = rtc.workers \ {wk}
                      /\ rtc'.making = rtc.making + 1
                \/ \E wk \in WorkerIds \ rtc.workers :
                      /\ rtc'.workers = rtc.workers \cup {wk}
                      /\ rtc'.making = rtc.making - 1
          /\ \A c \in DOMAIN channels :
                ~channels[c].closed /\ channels'[c].closed
                => /\ channels[c].worker \in rtc.workers \ rtc'.workers
                   /\ \A s \in SessionsIn(World, c) :
                         sessions'[s].closeLog = <<CHANNEL_CLOSED>>]_vars

\* A worker died and its replacement was made: the channel made on it is
\* closed with its session, while the channel made on another worker is
\* registered and its session CONNECTED.
C29_Witness ==
    \E c, d \in DOMAIN channels, s, x \in Sess :
        /\ channels[c].closed
        /\ channels[c].worker \notin rtc.workers
        /\ sessions[s].chan = c
        /\ sessions[s].closeLog = <<CHANNEL_CLOSED>>
        /\ d \in records
        /\ channels[d].worker \in rtc.workers
        /\ sessions[x].chan = d
        /\ StateOf(World, x) = S_CONNECTED
        /\ Cardinality(rtc.workers) = NumWorkers
        /\ rtc.made = NumWorkers + 1
        /\ rtc.making = 0

\* C30: an open session has recorded at most maxSessionErrors errors; an
\* error recorded while fewer than maxSessionErrors are on record leaves the
\* session in its state, so a single failure does not close it; the error
\* recorded when maxSessionErrors are on record closes it with ERROR; and a
\* session is closed for its errors at no other moment.
C30_ErrorLimit ==
    /\ [](\A s \in Sess :
            StateOf(World, s) # S_CLOSED
            => /\ sessions[s].errors \in 0..maxSessionErrors
               /\ LET w2 == HandleError(World, s)
                  IN IF sessions[s].errors < maxSessionErrors
                     THEN /\ w2.sessions[s].log = sessions[s].log
                          /\ w2.sessions[s].closeLog = <<>>
                          /\ w2.sessions[s].errors = sessions[s].errors + 1
                     ELSE /\ StateOf(w2, s) = S_CLOSED
                          /\ w2.sessions[s].closeLog = <<ERROR>>)
    /\ [][\A s \in Sess :
            /\ sessions'[s].errors > sessions[s].errors
                  => /\ sessions'[s].errors = sessions[s].errors + 1
                     /\ sessions'[s].log = sessions[s].log
            /\ sessions[s].closeLog = <<>> /\ sessions'[s].closeLog = <<ERROR>>
                  => sessions[s].errors = maxSessionErrors]_vars

\* One session was closed with ERROR after it had connected, and another one
\* is CONNECTED with maxSessionErrors errors on record.
C30_Witness ==
    \E s, x \in Sess :
        /\ sessions[s].closeLog = <<ERROR>>
        /\ S_CONNECTED \in Reached(s)
        /\ StateOf(World, x) = S_CONNECTED
        /\ sessions[x].errors = maxSessionErrors

\* C31: for a correctly signed token, verify rejects exactly when exp < now,
\* or nbf > now, or iat > now + 60, for every integer value of exp, nbf and iat
\* present in the claims (0 included), and otherwise returns the claims.
C31_TemporalClaims ==
    clock.out # "idle"
    => LET c == clock.claims
       IN (clock.out # "ok")
          <=> \/ c.exp.has /\ c.exp.v < clock.now
              \/ c.nbf.has /\ c.nbf.v > clock.now
              \/ c.iat.has /\ c.iat.v > clock.now + IatLeeway

\* Tokens with a non-zero exp in the past, with nbf in the future and with iat
\* more than 60 seconds ahead were rejected, and one whose claims are all
\* present and in range was returned.
C31_Witness ==
    /\ clock.out = "Token expired"
    /\ clock.claims.exp.v = clock.now - 1
    /\ clock.claims.exp.v # 0
    /\ clock.claims.nbf.has
    /\ clock.claims.iat.has

\* C32: a CLOSED session has no timer armed: neither the connection deadline,
\* nor the ping interval, nor a consumer-recovery timer for any peer; this in
\* every state after the close, so none is armed again, whatever call of
\* consume() or INIT_CONSUMER request was in flight when the session closed.
C32_NoTimerAfterClose ==
    \A s \in Sess :
        StateOf(World, s) = S_CLOSED
        => /\ ~sessions[s].connTimer
           /\ ~sessions[s].pingTimer
           /\ \A i \in SessionIds : sessions[s].recover[i] = 0

\* A session closed after it was CONNECTED while one of its consume() calls
\* was in flight, and its timers were all cleared by the close.
C32_Witness ==
    \E s \in Sess :
        /\ StateOf(World, s) = S_CLOSED
        /\ S_CONNECTED \in Reached(s)
        /\ \E t \in Tasks : t.self = s /\ t.kind \in {"consume", "initConsumer"}
        /\ ~sessions[s].connTimer
        /\ ~sessions[s].pingTimer
        /\ \A i \in SessionIds : sessions[s].recover[i] = 0

\* The calls of consume() in flight, each suspended at one of its awaits.
Consumes == {t \in Tasks : t.kind \in {"consume", "initConsumer", "sync"}}

\* C33: when an awaited step of consume(peer) fails while the peer is still
\* CONNECTED, the consumer in the slot is closed and the slot emptied, the
\* error is registered (the session is closed with ERROR when it is one too
\* many), and the recovery timer for that peer is armed; at most one recovery
\* timer is armed per session and peer id, the one on record; when the peer is
\* CLOSED nothing is registered and no timer is armed; and the timer, when it
\* fires, is gone and has called consume(peer), which starts to create or to
\* synchronise a consumer when there is one to create or to synchronise.
C33_Recovery ==
    /\ \A s \in Sess, i \in SessionIds :
          /\ sessions[s].timers[i] = IF sessions[s].recover[i] # 0 THEN 1 ELSE 0
          /\ sessions[s].recover[i] # 0
             => LET b == sessions[s].recover[i]
                    w1 == [World EXCEPT !.sessions[s].recover[i] = 0,
                                        !.sessions[s].timers[i] = @ - 1]
                    w2 == Consume(w1, s, b)
                IN /\ sessions[b].sid = i
                   /\ w2.sessions[s].recover[i] = 0
                   /\ w2.sessions[s].timers[i] = 0
                   /\ (/\ StateOf(World, b) = S_CONNECTED
                       /\ \E t \in Types :
                            LET p == sessions[b].producers[t]
                                c == SlotOf(s, b, t)
                            IN /\ p # 0
                               /\ CanConsume(World, s, p)
                               /\ c = 0 \/ consumers[c].paused # producers[p].paused)
                      => \E t \in DOMAIN w2.tasks :
                            /\ t.kind \in {"consume", "sync"}
                            /\ t.self = s /\ t.peer = b
                            /\ CopiesIn(t, w2.tasks) = CopiesIn(t, tasks) + 1
    /\ \A t \in Consumes :
          LET w == Retire(World, t)
              w2 == ConsumeCatch(w, t)
              a == t.self
              i == sessions[t.peer].sid
              c == slots[t.cobj].slot[t.type]
          IN /\ w2.slots[t.cobj].slot[t.type] = 0
             /\ c # 0 => w2.consumers[c].closed
             /\ IF StateOf(World, t.peer) = S_CLOSED
                THEN /\ w2.sessions[a].recover = sessions[a].recover
                     /\ w2.sessions[a].timers = sessions[a].timers
                     /\ w2.sessions[a].errors = sessions[a].errors
                     /\ w2.sessions[a].closeLog = sessions[a].closeLog
                ELSE /\ StateOf(World, t.peer) = S_CONNECTED
                     /\ w2.sessions[a].recover[i] = t.peer
                     /\ w2.sessions[a].timers[i] = 1
                     /\ IF sessions[a].errors < maxSessionErrors
                        THEN /\ w2.sessions[a].errors = sessions[a].errors + 1
                             /\ w2.sessions[a].closeLog = sessions[a].closeLog
                        ELSE StateOf(w2, a) = S_CLOSED

\* A call of consume() is in flight for a peer for which a recovery timer is
\* already armed, the peer is CONNECTED and a consumer sits in the slot: a
\* failure now closes that consumer and replaces the timer.
C33_Witness ==
    \E t \in Consumes :
        /\ StateOf(World, t.peer) = S_CONNECTED
        /\ StateOf(World, t.self) = S_CONNECTED
        /\ sessions[t.self].recover[sessions[t.peer].sid] = t.peer
        /\ sessions[t.self].errors = 1

\* The open producers that the engine holds for session s and type ty.
OpenProducers(s, ty) ==
    {p \in DOMAIN producers :
        producers[p].owner = s /\ producers[p].type = ty /\ ~producers[p].closed}

\* C34: at any time a session has at most one open producer per stream type,
\* also when two INIT_PRODUCER requests for one type are handled concurrently.
C34_OneProducerPerType ==
    \A s \in Sess, ty \in Types : Cardinality(OpenProducers(s, ty)) <= 1

\* A second INIT_PRODUCER that arrived after the first was answered closed the
\* prior producer, and its own producer took the slot.
C34_Witness ==
    \E s \in Sess, ty \in Types, p, q \in DOMAIN producers :
        /\ StateOf(World, s) = S_CONNECTED
        /\ producers[p].owner = s /\ producers[p].type = ty /\ producers[p].closed
        /\ producers[q].owner = s /\ producers[q].type = ty /\ ~producers[q].closed
        /\ sessions[s].producers[ty] = q
        /\ OpenProducers(s, ty) = {q}

\* The issuer keys under which channel c is registered.
IssuerKeys(c) == {i \in Issuers : recordsByIssuer[i] = c}

\* C35: each open channel made by Channel.create is registered under its uuid
\* and under at most one issuer key; every issuer key names an open channel;
\* and closing a channel removes its own uuid entry and leaves the uuid entry
\* and the issuer entry of every other open channel in place.
C35_Registries ==
    /\ \A c \in DOMAIN channels :
          (channels[c].onClose /\ ~channels[c].closed)
          => /\ c \in records
             /\ Cardinality(IssuerKeys(c)) <= 1
             /\ LET w2 == ChannelClose(World, c)
                IN /\ w2.records = records \ {c}
                   /\ \A i \in Issuers :
                         w2.recordsByIssuer[i] =
                            IF recordsByIssuer[i] = c THEN 0 ELSE recordsByIssuer[i]
    /\ \A i \in Issuers :
          recordsByIssuer[i] # 0
          => /\ recordsByIssuer[i] \in DOMAIN channels
             /\ ~channels[recordsByIssuer[i]].closed

\* A channel was closed and is in neither registry, while the channel of
\* another issuer is open and registered under its uuid and its issuer.
C35_Witness ==
    \E c, d \in DOMAIN channels :
        /\ channels[c].closed
        /\ c \notin records
        /\ IssuerKeys(c) = {}
        /\ ~channels[d].closed
        /\ d \in records
        /\ channels[d].issuer # channels[c].issuer
        /\ IssuerKeys(d) = {channels[d].issuer}

\* C36: the idle timer of an open channel made by Channel.create is armed
\* exactly when the channel holds at most one session: it is armed when the
\* channel is created, a join of a new id leaves it armed when it is the first
\* and disarms it when it brings the count above 1, a join that replaces a
\* session changes neither the count nor the timer, and the close of a session
\* arms it when it brings the count down to 1 or 0.
C36_IdleTimerArmed ==
    /\ [](\A c \in DOMAIN channels :
            (channels[c].onClose /\ ~channels[c].closed)
            => /\ channels[c].closeTimeout <=> SizeOf(World, c) <= 1
               /\ \A sid \in SessionIds :
                     LET w2 == ChannelJoin(World, c, sid)
                     IN IF channels[c].sessions[sid] # 0
                        THEN /\ SizeOf(w2, c) = SizeOf(World, c)
                             /\ w2.channels[c].closeTimeout = channels[c].closeTimeout
                        ELSE /\ SizeOf(w2, c) = SizeOf(World, c) + 1
                             /\ w2.channels[c].closeTimeout <=> SizeOf(World, c) = 0
               /\ \A s \in SessionsIn(World, c) :
                     LET w2 == SessionClose(World, s, CLEAN)
                     IN /\ SizeOf(w2, c) = SizeOf(World, c) - 1
                        /\ w2.channels[c].closeTimeout <=> SizeOf(w2, c) <= 1)
    /\ [][\A c \in DOMAIN channels' :
            c \notin DOMAIN channels
            => /\ channels'[c].onClose
               /\ channels'[c].closeTimeout
               /\ channels'[c].sessions = [x \in SessionIds |-> 0]]_vars

\* A session replaced the only session of a channel, whose timer stayed
\* armed, and the join of a second id then disarmed it.
C36_Witness ==
    \E c \in records, s \in ClosedWith(REPLACED) :
        /\ sessions[s].chan = c
        /\ SizeOf(World, c) = 2
        /\ ~channels[c].closeTimeout
        /\ channels[c].sessions[sessions[s].sid] > s

\* C37: when nothing is in flight and session a holds a consumer in its slot
\* for type t of session b, and b holds a producer of type t, that consumer
\* consumes the producer that b holds.
C37_ConsumesCurrent ==
    Quiescent
    => \A a, b \in Sess, t \in Types :
          (/\ a # b
           /\ StateOf(World, a) = S_CONNECTED
           /\ StateOf(World, b) = S_CONNECTED
           /\ SlotOf(a, b, t) # 0
           /\ sessions[b].producers[t] # 0)
          => consumers[SlotOf(a, b, t)].producer = sessions[b].producers[t]

\* At rest, a session consumes the only producer its peer ever made.
C37_Witness ==
    /\ Quiescent
    /\ \E a, b \in Sess, t \in Types :
          /\ a # b
          /\ StateOf(World, a) = S_CONNECTED
          /\ StateOf(World, b) = S_CONNECTED
          /\ SlotOf(a, b, t) # 0
          /\ sessions[b].producers[t] # 0
          /\ consumers[SlotOf(a, b, t)].producer = sessions[b].producers[t]
          /\ Len(producers) = 1

\* C38: a consumer that its session's client paused with
\* CONSUMPTION_CHANGE{active: false} stays paused until that client sends
\* CONSUMPTION_CHANGE{active: true} for it, whatever reconciliation runs in
\* between.
C38_ClientPauseKept ==
    \A c \in DOMAIN consumers :
        (consumers[c].held /\ ~consumers[c].closed) => consumers[c].paused

\* At rest, a consumer that the client paused is paused while the producer it
\* consumes is not.
C38_Witness ==
    /\ Quiescent
    /\ \E c \in DOMAIN consumers :
          /\ consumers[c].held
          /\ ~consumers[c].closed
          /\ consumers[c].paused
          /\ ~producers[consumers[c].producer].paused
          /\ SlotOf(consumers[c].owner, consumers[c].peer, consumers[c].type) = c

\* C39: once a session was evicted with REPLACED, neither the close of its
\* link nor a further close() of it with any code changes the sessions map of
\* its channel, the session that replaced it or the channel's idle timer; and
\* the step in which the evicted session's link closes leaves every channel
\* and every other session as they are.
C39_EvictedIsInert ==
    /\ [](\A s \in ClosedWith(REPLACED) :
            LET c == sessions[s].chan
                inert(w2) ==
                    /\ w2.channels[c] = channels[c]
                    /\ w2.records = records
                    /\ \A r \in Sess \ {s} : w2.sessions[r] = sessions[r]
            IN /\ inert(SessionClose([World EXCEPT !.sessions[s].link = "closed"],
                                     s, WS_CLOSED))
               /\ \A code \in Codes : inert(SessionClose(World, s, code)))
    /\ [][\A s \in ClosedWith(REPLACED) :
            (sessions[s].link # "closed" /\ sessions'[s].link = "closed")
            => /\ channels' = channels
               /\ \A r \in Sess \ {s} : sessions'[r] = sessions[r]]_vars

\* The link of an evicted session has closed while the session that replaced
\* it is in the channel's map, not closed.
C39_Witness ==
    \E s \in ClosedWith(REPLACED) :
        LET r == channels[sessions[s].chan].sessions[sessions[s].sid]
        IN /\ sessions[s].link = "closed"
           /\ sessions[s].chan \in records
           /\ r # 0
           /\ r # s
           /\ StateOf(World, r) # S_CLOSED

\* The state of link l: that of its session's link once it has one.
LinkState(l) ==
    IF links[l].session # 0 THEN sessions[links[l].session].link ELSE links[l].state

\* C40: a link is in the pending set only while it is open and has not sent
\* its first frame, and in the authenticated set only if a session was created
\* for it; a link that has closed is in neither set.
C40_LiveLinksOnly ==
    \A l \in DOMAIN links :
        /\ links[l].pending => (LinkState(l) = "open" /\ links[l].once)
        /\ links[l].authenticated => links[l].session # 0
        /\ (LinkState(l) = "closed" /\ ~links[l].timeout)
           => (~links[l].pending /\ ~links[l].authenticated)

\* One link closed after its session was created and one was closed by the
\* authentication deadline; both are in neither set.
C40_Witness ==
    \E l, m \in DOMAIN links :
        /\ links[l].session # 0
        /\ LinkState(l) = "closed"
        /\ ~links[l].pending /\ ~links[l].authenticated
        /\ links[m].code = 4107
        /\ LinkState(m) = "closed"
        /\ ~links[m].pending /\ ~links[m].authenticated
====
